---- MODULE Spec2Model ----
(***************************************************************************)
(* NOVA: the lite journal (journal.c) and the copy-on-write write path     *)
(* (dax.c) over byte-addressable persistent memory (PM).                   *)
(*                                                                         *)
(* PM model.  A store through an ordinary pointer lands in the CPU cache   *)
(* and reaches PM when its cache line is flushed (nova_flush_buffer) or    *)
(* when the hardware evicts it, which may happen at any time or never.     *)
(* memcpy_to_pmem_nocache and a store followed by nova_flush_buffer are    *)
(* durable when they return.  A crash drops whatever is still cached.      *)
(*                                                                         *)
(* For a journal slot the model keeps the entry last stored (jent) and the *)
(* entry PM is sure to hold (jentPM).  Whether the hardware had written a  *)
(* cached entry back is decided when it first matters: when the slot is    *)
(* stored to again, or when a mount after a crash reads it.                *)
(***************************************************************************)
EXTENDS Integers, Sequences, FiniteSets, TLC

(***************************************************************************)
(* Lite journal: sizes and layout                                          *)
(***************************************************************************)

\* sbi->cpus: one journal (ptr_pair + one journal page) per CPU.
NCpus == 2
Cpus == 0 .. (NCpus - 1)

\* sizeof(struct nova_lite_journal_entry): 128 entries per 4096-byte page.
LJEntrySize == 32

\* Entries per journal page in the model (128 in the program).
JournalEntries == 6

\* The journal page size the model uses in place of PAGE_SIZE.
JPageSize == JournalEntries * LJEntrySize

\* entry->type values.
JOURNAL_INODE == 1
JOURNAL_ENTRY == 2

\* Inodes that take part in transactions.
NInodes == 2
Inodes == 1 .. NInodes

\* Transactions started, and crashes, in one behaviour.
MaxTx == 2
MaxCrash == 2

\* -EINVAL, and the value standing for an int that was never assigned.
EINVAL == 22
UNINIT == 99

NULL == 0

\* The journal page of CPU c, as nova_lite_journal_hard_init allocates it:
\* one block per CPU, never block 0.
JBase(c) == (c + 1) * JPageSize

JSlots(c) == { JBase(c) + k * LJEntrySize : k \in 0 .. (JournalEntries - 1) }
AllSlots == UNION { JSlots(c) : c \in Cpus }

\* sih->pi_addr and sih->alter_pi_addr of inode i, and the address of the
\* journalled 64-bit field (father_ino of the rename).
DataBase == (NCpus + 1) * JPageSize
PiAddr(i) == DataBase + 2 * i
AlterAddr(i) == DataBase + 2 * i + 1
FieldAddr == DataBase

DataAddrs == { PiAddr(i) : i \in Inodes } \cup { AlterAddr(i) : i \in Inodes }
                \cup { FieldAddr }

\* Contents of an inode (abstract versions) and of the 64-bit field.
DataVals == 0 .. 1

ZeroEntry == [type |-> 0, data1 |-> 0, data2 |-> 0, csum |-> 0]

VARIABLES
    replica_inode,  \* module parameter, fixed at load time
    mode,           \* "run" | "panic" | "mount" | "failed"
    pair,           \* [Cpus -> [head, tail]]: the ptr_pair of each CPU (PM)
    jent,           \* [AllSlots -> entry]: the journal entries last stored
    jentPM,         \* [AllSlots -> entry]: what PM is sure to hold of them
    mem,            \* [DataAddrs -> DataVals]: inodes, replicas, the field
    junres,         \* slots whose cached copy a crash caught unwritten-back
    jpc,            \* [Cpus -> "idle" | "append" | "bug"]: position in a call
    jtemp,          \* [Cpus -> address]: the local temp of a create call
    jtx,            \* [Cpus -> Seq(item)]: items of the call / open transaction
    jopen,          \* [Cpus -> BOOLEAN]: created and not yet committed
    marker,         \* [Cpus -> address]: the tail the last create returned
    jmut,           \* [Cpus -> Nat]: items of the open transaction changed
    mnt,            \* soft_init's locals: [i, pc, temp, ret]
    hist,           \* what the crash interrupted and what this mount did
    ntx,            \* transactions started
    ncrash          \* crashes so far

jvars == << replica_inode, mode, pair, jent, jentPM, junres, mem, jpc, jtemp,
            jtx, jopen, marker, jmut, mnt, hist, ntx, ncrash >>

\* State of the write path (described with the write path below).
VARIABLES
    blk,            \* [Blocks -> [ByteIdx -> byte]]: data blocks (PM)
    free,           \* the allocator's free blocks (DRAM)
    wlog,           \* [Slots -> entry]: the inode's log (PM)
    log_tail,       \* pi->log_tail (PM)
    tree,           \* [Pages -> slot or 0]: sih->tree (DRAM)
    i_size,         \* inode->i_size (DRAM)
    w,              \* locals of the nova_cow_file_write call in progress
    wret,           \* what the last write call returned
    committed,      \* file content as of the last publication
    nwrites,        \* write calls so far
    wcrash          \* crashes so far

wvars == << blk, free, wlog, log_tail, tree, i_size, w, wret, committed,
            nwrites, wcrash >>

\* Data checksums and the read path (dax.c).
VARIABLES
    csum,           \* [Blocks -> checksum]: stored checksum of each block (PM)
    rd,             \* the read call that has returned and its result
    nbad            \* media errors so far

rvars == << csum, rd, nbad >>

\* One data block with its parity stripe and stripe checksums (parity.c).
VARIABLES
    pblk,           \* [Strps -> stripe]: the stripes of the block (PM)
    pparity,        \* the parity stripe of the block (PM)
    pcsum,          \* [0 .. 1 -> [Strps -> checksum]]: both checksum copies
    porig,          \* the stripes as they were written
    pres,           \* the nova_restore_data call that has returned
    pupd,           \* the checksum / parity update call that has returned
    ndmg            \* media errors on the block so far

pvars == << pblk, pparity, pcsum, porig, pres, pupd, ndmg >>

\* Page faults of a mapped file (nova_dax_get_blocks), and threads that
\* write, fault, read and map files of one page each.
VARIABLES
    gb,             \* the nova_dax_get_blocks call that has returned
    th,             \* [1 .. NThreads -> locals of the call the thread is in]
    i_mutex,        \* [Inodes -> thread that holds inode->i_mutex, or 0]
    mapped,         \* [Inodes -> BOOLEAN]: mapping_mapped(inode->i_mapping)
    lpage,          \* [Inodes -> block the tree maps page 0 to, or 0]
    lcur,           \* [Inodes -> end of the last entry appended to the log]
    ltail,          \* [Inodes -> entries within pi->log_tail]
    lfree,          \* free blocks of the allocator of the threads
    lblk,           \* [block -> id of the call that stored its content]
    nops            \* calls made so far

cvars == << gb, th, i_mutex, mapped, lpage, lcur, ltail, lfree, lblk, nops >>

vars == << jvars, wvars, rvars, pvars, cvars >>

(***************************************************************************)
(* Entry checksum                                                          *)
(***************************************************************************)

\* crc32c(~0, entry, sizeof(entry) - sizeof(csum)): a digest of type, padding
\* (always 0), data1 and data2.  The mix below stands for it: it is injective
\* on the values the model stores, and the all-zero entry does not verify.
LJCrc(e) == (1 + e.type + 4 * e.data1 + 4096 * e.data2) % 1073741824

nova_update_entry_checksum(e) == [e EXCEPT !.csum = LJCrc(e)]

\* 0 when the stored checksum matches, 1 otherwise.
nova_check_entry_integrity(e) == IF e.csum = LJCrc(e) THEN 0 ELSE 1

\* A ring that wraps one entry early.
next_lite_journal_Short(curr_p) ==
    IF (curr_p % JPageSize) + 2 * LJEntrySize >= JPageSize
    THEN curr_p - (curr_p % JPageSize)
    ELSE curr_p + LJEntrySize

next_lite_journal(curr_p) ==
    IF (curr_p % JPageSize) + LJEntrySize >= JPageSize
    THEN curr_p - (curr_p % JPageSize)
    ELSE curr_p + LJEntrySize

\* The addresses from `from' up to, not including, `to', in journal order.
RECURSIVE JRange(_, _)
JRange(from, to) ==
    IF from = to THEN << >>
    ELSE << from >> \o JRange(next_lite_journal(from), to)

SeqSet(s) == { s[k] : k \in 1 .. Len(s) }

\* A check that verifies nothing.
nova_check_journal_entries_Skip(ents, temp, tail) ==
    0

\* nova_check_journal_entries: 0, or the first failing entry's result.
RECURSIVE nova_check_journal_entries(_, _, _)
nova_check_journal_entries(ents, temp, tail) ==
    IF temp = tail THEN 0
    ELSE IF nova_check_entry_integrity(ents[temp]) # 0
         THEN nova_check_entry_integrity(ents[temp])
         ELSE nova_check_journal_entries(ents, next_lite_journal(temp), tail)

(***************************************************************************)
(* Undo                                                                    *)
(***************************************************************************)

\* memcpy_to_pmem_nocache(pi, alter_pi, sizeof(struct nova_inode)), unless
\* replica_inode is 0.
nova_recover_journal_inode(m, e) ==
    IF replica_inode = 0 THEN m
    ELSE IF e.data1 \in DOMAIN m /\ e.data2 \in DOMAIN m
         THEN [m EXCEPT ![e.data1] = m[e.data2]]
         ELSE m

\* An undo that flips the field instead of storing the recorded value.
nova_recover_journal_entry_Toggle(m, e) ==
    IF e.data1 \in DOMAIN m /\ e.data2 \in DataVals
    THEN [m EXCEPT ![e.data1] = 1 - m[e.data1]]
    ELSE m

\* *(u64 *)addr = value, flushed.
nova_recover_journal_entry(m, e) ==
    IF e.data1 \in DOMAIN m /\ e.data2 \in DataVals
    THEN [m EXCEPT ![e.data1] = e.data2]
    ELSE m

nova_undo_lite_journal_entry(m, e) ==
    CASE e.type = JOURNAL_INODE -> nova_recover_journal_inode(m, e)
      [] e.type = JOURNAL_ENTRY -> nova_recover_journal_entry(m, e)
      [] OTHER -> m

\* The loop of nova_recover_lite_journal run to its end on memory m.
RECURSIVE UndoRange(_, _, _, _)
UndoRange(m, ents, temp, tail) ==
    IF temp = tail THEN m
    ELSE UndoRange(nova_undo_lite_journal_entry(m, ents[temp]), ents,
                   next_lite_journal(temp), tail)

(***************************************************************************)
(* Journal state after nova_lite_journal_hard_init and a clean mount       *)
(***************************************************************************)

ENOMEM == 12

\* A journalled item: an inode (before-image entry) or the 64-bit field.
InodeItem(i) == [kind |-> "inode", ino |-> i]
FieldItem == [kind |-> "field", ino |-> 0]

\* Where the journalled item lives.
ItemAddr(item) == IF item.kind = "inode" THEN PiAddr(item.ino) ELSE FieldAddr

\* The items with what they held when the transaction was created.
WithOld(items, m) ==
    [k \in 1 .. Len(items) |->
        [kind |-> items[k].kind, ino |-> items[k].ino,
         old |-> m[ItemAddr(items[k])]]]

NoHist == [tx |-> << >>, range |-> << >>, replayed |-> << >>,
           pair0 |-> [head |-> 0, tail |-> 0], mem0 |-> << >>,
           checked |-> FALSE, recovered |-> FALSE, interrupted |-> 0]

MntIdle == [i |-> 0, pc |-> "none", temp |-> 0, ret |-> UNINIT]

JInit ==
    /\ replica_inode \in {0, 1}
    /\ mode = "run"
    /\ pair = [c \in Cpus |-> [head |-> JBase(c), tail |-> JBase(c)]]
    /\ jent = [a \in AllSlots |-> ZeroEntry]
    /\ jentPM = [a \in AllSlots |-> ZeroEntry]
    /\ junres = {}
    /\ mem = [a \in DataAddrs |-> 0]
    /\ jpc = [c \in Cpus |-> "idle"]
    /\ jtemp = [c \in Cpus |-> 0]
    /\ jtx = [c \in Cpus |-> << >>]
    /\ jopen = [c \in Cpus |-> FALSE]
    /\ marker = [c \in Cpus |-> 0]
    /\ jmut = [c \in Cpus |-> 0]
    /\ mnt = MntIdle
    /\ hist = [c \in Cpus |-> NoHist]
    /\ ntx = 0
    /\ ncrash = 0

(***************************************************************************)
(* Create / commit                                                         *)
(***************************************************************************)

\* The entry nova_append_inode_journal stores at a slot holding `old':
\* data2 is stored only when replica_inode is set.
nova_append_inode_journal(old, i) ==
    nova_update_entry_checksum(
        [type |-> JOURNAL_INODE, data1 |-> PiAddr(i),
         data2 |-> IF replica_inode # 0 THEN AlterAddr(i) ELSE old.data2,
         csum |-> old.csum])

\* The entry nova_append_entry_journal stores: address and current value.
nova_append_entry_journal(old, m) ==
    nova_update_entry_checksum(
        [type |-> JOURNAL_ENTRY, data1 |-> FieldAddr, data2 |-> m[FieldAddr],
         csum |-> old.csum])

\* The appends of one create call from curr_p on: plain stores into the
\* journal page, none of them flushed.  Yields the entries and the new temp.
RECURSIVE AppendItems(_, _, _, _)
AppendItems(ents, curr_p, items, m) ==
    IF items = << >> THEN [ents |-> ents, temp |-> curr_p]
    ELSE LET item == Head(items)
             e == IF item.kind = "inode"
                  THEN nova_append_inode_journal(ents[curr_p], item.ino)
                  ELSE nova_append_entry_journal(ents[curr_p], m)
         IN AppendItems([ents EXCEPT ![curr_p] = e],
                        next_lite_journal(curr_p), Tail(items), m)

\* The slots a call storing Len(items) entries from curr_p on stores to.
RECURSIVE SlotsFrom(_, _)
SlotsFrom(curr_p, n) ==
    IF n = 0 THEN {}
    ELSE {curr_p} \cup SlotsFrom(next_lite_journal(curr_p), n - 1)

\* A guard that does not look for an open transaction.
CreateGuardFails_NoOpenCheck(c) ==
    pair[c].head = 0

\* The guard both create functions open with.
CreateGuardFails(c) ==
    pair[c].head = 0 \/ pair[c].head # pair[c].tail

\* A create call up to its last append.  BUG() halts the kernel.  Of the
\* slots it stores to whose previous entry was still only cached (or caught
\* by a crash), `evicted' are those the hardware had written back before.
CreateAppend(c, items, evicted) ==
    /\ mode = "run"
    /\ jpc[c] = "idle"
    /\ ntx < MaxTx
    /\ ntx' = ntx + 1
    /\ IF CreateGuardFails(c)
       THEN /\ mode' = "panic"
            /\ jpc' = [jpc EXCEPT ![c] = "bug"]
            /\ evicted = {}
            /\ UNCHANGED << jent, jentPM, junres, jtemp, jtx >>
       ELSE LET slots == SlotsFrom(pair[c].head, Len(items))
                pm == [a \in AllSlots |-> IF a \in evicted THEN jent[a]
                                          ELSE jentPM[a]]
                \* what the call finds in the slots: the cached entry, or,
                \* after a crash, what PM turned out to hold
                seen == [a \in AllSlots |-> IF a \in slots \cap junres
                                            THEN pm[a] ELSE jent[a]]
                r == AppendItems(seen, pair[c].head, items, mem)
            IN /\ evicted \subseteq { a \in slots : jent[a] # jentPM[a] }
               /\ jentPM' = pm
               /\ jent' = r.ents
               /\ junres' = junres \ slots
               /\ jtemp' = [jtemp EXCEPT ![c] = r.temp]
               /\ jpc' = [jpc EXCEPT ![c] = "append"]
               /\ jtx' = [jtx EXCEPT ![c] = WithOld(items, mem)]
               /\ UNCHANGED mode
    /\ UNCHANGED << replica_inode, pair, mem, jopen, marker, jmut, mnt, hist,
                    ncrash >>
    /\ UNCHANGED << wvars, rvars, pvars, cvars >>

OptInode(i) == IF i = NULL THEN << >> ELSE << InodeItem(i) >>

nova_create_inode_transaction(c, inode1, inode2, evicted) ==
    CreateAppend(c, << InodeItem(inode1), InodeItem(inode2) >>, evicted)

nova_create_rename_transaction(c, old_inode, old_dir, new_inode, new_dir, father_ino, evicted) ==
    CreateAppend(c, << InodeItem(old_inode), InodeItem(old_dir) >>
                    \o OptInode(new_inode) \o OptInode(new_dir)
                    \o (IF father_ino THEN << FieldItem >> ELSE << >>),
                 evicted)

\* pair->journal_tail = temp; nova_flush_buffer(&pair->journal_head, .., 1);
\* return temp.
CreateEnd(c) ==
    /\ mode = "run"
    /\ jpc[c] = "append"
    /\ pair' = [pair EXCEPT ![c].tail = jtemp[c]]
    /\ marker' = [marker EXCEPT ![c] = jtemp[c]]
    /\ jopen' = [jopen EXCEPT ![c] = TRUE]
    /\ jmut' = [jmut EXCEPT ![c] = 0]
    /\ jpc' = [jpc EXCEPT ![c] = "idle"]
    /\ UNCHANGED << replica_inode, mode, jent, jentPM, junres, mem, jtemp,
                    jtx, mnt, hist, ntx, ncrash >>
    /\ UNCHANGED << wvars, rvars, pvars, cvars >>

nova_commit_lite_transaction(c, tail) ==
    /\ mode = "run"
    /\ jpc[c] = "idle"
    /\ IF pair[c].tail # tail
       THEN /\ mode' = "panic"
            /\ jpc' = [jpc EXCEPT ![c] = "bug"]
            /\ UNCHANGED << pair, jopen, jtx >>
       ELSE /\ pair' = [pair EXCEPT ![c].head = tail]
            /\ jopen' = [jopen EXCEPT ![c] = FALSE]
            /\ jtx' = [jtx EXCEPT ![c] = << >>]
            /\ UNCHANGED << mode, jpc >>
    /\ UNCHANGED << replica_inode, jent, jentPM, junres, mem, jtemp,
                    marker, jmut, mnt, hist, ntx, ncrash >>
    /\ UNCHANGED << wvars, rvars, pvars, cvars >>

(***************************************************************************)
(* The callers' part of a transaction, and the crash                       *)
(***************************************************************************)

\* Between create and commit the caller changes the journalled inodes and
\* the journalled field in place, one after the other in the order it
\* journalled them.
Mutate(c) ==
    /\ mode = "run"
    /\ jpc[c] = "idle"
    /\ jopen[c]
    /\ jmut[c] < Len(jtx[c])
    /\ LET item == jtx[c][jmut[c] + 1]
       IN mem' = IF item.kind = "inode"
                 THEN [mem EXCEPT ![PiAddr(item.ino)] =
                                        1 - mem[AlterAddr(item.ino)]]
                 ELSE [mem EXCEPT ![FieldAddr] = 1 - mem[FieldAddr]]
    /\ jmut' = [jmut EXCEPT ![c] = @ + 1]
    /\ UNCHANGED << replica_inode, mode, pair, jent, jentPM, junres, jpc,
                    jtemp, jtx, jopen, marker, mnt, hist, ntx, ncrash >>
    /\ UNCHANGED << wvars, rvars, pvars, cvars >>

InTx(i) ==
    \E c \in Cpus : \E k \in 1 .. Len(jtx[c]) :
        jtx[c][k].kind = "inode" /\ jtx[c][k].ino = i

\* After commit the caller brings the replica up to date
\* (nova_update_alter_inode).
SyncAlter(i) ==
    /\ mode = "run"
    /\ ~InTx(i)
    /\ mem[AlterAddr(i)] # mem[PiAddr(i)]
    /\ mem' = [mem EXCEPT ![AlterAddr(i)] = mem[PiAddr(i)]]
    /\ UNCHANGED << replica_inode, mode, pair, jent, jentPM, junres, jpc,
                    jtemp, jtx, jopen, marker, jmut, mnt, hist, ntx, ncrash >>
    /\ UNCHANGED << wvars, rvars, pvars, cvars >>

\* Power failure (or the reboot after BUG()): every call in flight is gone,
\* the journal entries still only cached are written back or lost, and the
\* file system is mounted again.
Crash ==
    /\ ncrash < MaxCrash
    /\ ncrash' = ncrash + 1
    /\ mode' = "mount"
    /\ junres' = { a \in AllSlots : jent[a] # jentPM[a] }
    /\ jpc' = [c \in Cpus |-> "idle"]
    /\ jtemp' = [c \in Cpus |-> 0]
    /\ marker' = [c \in Cpus |-> 0]
    /\ jmut' = [c \in Cpus |-> 0]
    /\ mnt' = [i |-> 0, pc |-> "start", temp |-> 0, ret |-> UNINIT]
    /\ hist' = [c \in Cpus |->
                 [tx |-> IF mode \in {"run", "panic"}
                         THEN (IF jopen[c] THEN jtx[c] ELSE << >>)
                         ELSE (IF hist[c].recovered THEN << >> ELSE hist[c].tx),
                  range |-> JRange(pair[c].head, pair[c].tail),
                  replayed |-> << >>,
                  pair0 |-> pair[c],
                  mem0 |-> IF mode \in {"run", "panic"}
                              \/ hist[c].recovered THEN mem
                           ELSE hist[c].mem0,
                  checked |-> FALSE,
                  recovered |-> FALSE,
                  interrupted |->
                      IF mode \in {"run", "panic"} \/ hist[c].recovered THEN 0
                      ELSE IF mnt.pc = "undo" /\ mnt.i = c
                              /\ hist[c].replayed # << >>
                           THEN hist[c].interrupted + 1
                           ELSE hist[c].interrupted]]
    /\ jopen' = [c \in Cpus |-> FALSE]
    /\ jtx' = [c \in Cpus |-> << >>]
    /\ UNCHANGED << replica_inode, pair, jent, jentPM, mem, ntx >>
    /\ UNCHANGED << wvars, rvars, pvars, cvars >>

(***************************************************************************)
(* Mount: nova_lite_journal_soft_init                                      *)
(***************************************************************************)

\* kzalloc of the journal locks, which may fail.
SoftInitAlloc(ok) ==
    /\ mode = "mount"
    /\ mnt.pc = "start"
    /\ mnt' = IF ok THEN [mnt EXCEPT !.pc = "loop"]
              ELSE [mnt EXCEPT !.pc = "done", !.ret = ENOMEM]
    /\ UNCHANGED << replica_inode, mode, pair, jent, jentPM, junres, mem, jpc,
                    jtemp, jtx, jopen, marker, jmut, hist, ntx, ncrash >>
    /\ UNCHANGED << wvars, rvars, pvars, cvars >>

\* One turn of the for loop up to the call of nova_recover_lite_journal.
\* Reading journal i settles what PM holds of its entries: of those a crash
\* caught cached, `evicted' had been written back and the rest are lost.
SoftInitLoop(evicted) ==
    /\ mode = "mount"
    /\ mnt.pc = "loop"
    /\ LET i == mnt.i
       IN IF i >= NCpus
          THEN /\ mnt' = [mnt EXCEPT !.pc = "done"]
               /\ evicted = {}
               /\ UNCHANGED << jent, jentPM, junres, hist >>
          ELSE IF pair[i].head = pair[i].tail
               THEN /\ mnt' = [mnt EXCEPT !.i = i + 1]
                    /\ evicted = {}
                    /\ UNCHANGED << jent, jentPM, junres, hist >>
               ELSE LET range == SeqSet(JRange(pair[i].head, pair[i].tail))
                        pm == [a \in AllSlots |->
                                 IF a \in range \cap junres
                                 THEN (IF a \in evicted THEN jent[a]
                                       ELSE jentPM[a])
                                 ELSE jentPM[a]]
                        ents == [a \in AllSlots |->
                                   IF a \in range \cap junres THEN pm[a]
                                   ELSE jent[a]]
                    IN /\ evicted \subseteq range \cap junres
                       /\ jentPM' = pm
                       /\ jent' = ents
                       /\ junres' = junres \ range
                       /\ hist' = [hist EXCEPT ![i].checked = TRUE]
                       /\ IF nova_check_journal_entries(ents, pair[i].head,
                                                        pair[i].tail) # 0
                          THEN mnt' = [mnt EXCEPT !.pc = "done",
                                                  !.ret = EINVAL]
                          ELSE mnt' = [mnt EXCEPT !.pc = "undo",
                                                  !.temp = pair[i].head]
    /\ UNCHANGED << replica_inode, mode, pair, mem, jpc, jtemp, jtx, jopen,
                    marker, jmut, ntx, ncrash >>
    /\ UNCHANGED << wvars, rvars, pvars, cvars >>

\* One turn of the while loop of nova_recover_lite_journal.
RecoverUndo ==
    /\ mode = "mount"
    /\ mnt.pc = "undo"
    /\ mnt.temp # pair[mnt.i].tail
    /\ mem' = nova_undo_lite_journal_entry(mem, jent[mnt.temp])
    /\ mnt' = [mnt EXCEPT !.temp = next_lite_journal(mnt.temp)]
    /\ hist' = [hist EXCEPT ![mnt.i].replayed = Append(@, mnt.temp)]
    /\ UNCHANGED << replica_inode, mode, pair, jent, jentPM, junres, jpc,
                    jtemp, jtx, jopen, marker, jmut, ntx, ncrash >>
    /\ UNCHANGED << wvars, rvars, pvars, cvars >>

\* A recovery that ends by committing: head = tail instead of tail = head.
RecoverFinish_HeadToTail ==
    /\ mode = "mount"
    /\ mnt.pc = "undo"
    /\ mnt.temp = pair[mnt.i].tail
    /\ pair' = [pair EXCEPT ![mnt.i].head = pair[mnt.i].tail]
    /\ mnt' = [mnt EXCEPT !.pc = "loop", !.i = mnt.i + 1, !.ret = 0]
    /\ hist' = [hist EXCEPT ![mnt.i].recovered = TRUE]
    /\ UNCHANGED << replica_inode, mode, jent, jentPM, junres, mem, jpc,
                    jtemp, jtx, jopen, marker, jmut, ntx, ncrash >>
    /\ UNCHANGED << wvars, rvars, pvars, cvars >>

\* pair->journal_tail = pair->journal_head, flushed; return 0.
RecoverFinish ==
    /\ mode = "mount"
    /\ mnt.pc = "undo"
    /\ mnt.temp = pair[mnt.i].tail
    /\ pair' = [pair EXCEPT ![mnt.i].tail = pair[mnt.i].head]
    /\ mnt' = [mnt EXCEPT !.pc = "loop", !.i = mnt.i + 1, !.ret = 0]
    /\ hist' = [hist EXCEPT ![mnt.i].recovered = TRUE]
    /\ UNCHANGED << replica_inode, mode, jent, jentPM, junres, mem, jpc,
                    jtemp, jtx, jopen, marker, jmut, ntx, ncrash >>
    /\ UNCHANGED << wvars, rvars, pvars, cvars >>

\* return ret: an int that no path assigned holds whatever the stack held.
SoftInitReturn(garbage) ==
    /\ mode = "mount"
    /\ mnt.pc = "done"
    /\ LET ret == IF mnt.ret = UNINIT THEN garbage ELSE mnt.ret
       IN /\ mode' = IF ret = 0 THEN "run" ELSE "failed"
          /\ mnt' = [MntIdle EXCEPT !.ret = ret]
          /\ hist' = IF ret = 0 THEN [c \in Cpus |-> NoHist] ELSE hist
    /\ UNCHANGED << replica_inode, pair, jent, jentPM, junres, mem, jpc,
                    jtemp, jtx, jopen, marker, jmut, ntx, ncrash >>
    /\ UNCHANGED << wvars, rvars, pvars, cvars >>

\* The arguments of the rename transactions the model issues: each optional
\* argument present and absent.
RenameArgs == { << NULL, NULL, FALSE >>, << 1, NULL, TRUE >>,
                << NULL, 2, FALSE >>, << 1, 2, TRUE >> }

\* The journal slots whose last stored entry PM is not sure to hold.
Unsure(c) == { a \in JSlots(c) : jent[a] # jentPM[a] }

\* JSpec issues the transactions one at a time: a CPU starts one when no
\* other CPU has one open or is creating one.
FreeCpus ==
    { c \in Cpus : /\ \A d \in Cpus \ {c} : jpc[d] = "idle" /\ ~jopen[d]
                   /\ \A i \in Inodes : mem[AlterAddr(i)] = mem[PiAddr(i)] }

JNext ==
    \/ \E c \in FreeCpus, i1 \in Inodes :
          \E i2 \in Inodes \ {i1}, ev \in SUBSET Unsure(c) :
             nova_create_inode_transaction(c, i1, i2, ev)
    \/ \E c \in FreeCpus, a \in RenameArgs :
          \E ev \in SUBSET Unsure(c) :
             nova_create_rename_transaction(c, 1, 2, a[1], a[2], a[3], ev)
    \/ \E c \in Cpus : CreateEnd(c)
    \/ \E c \in Cpus : \E t \in {marker[c], pair[c].head} :
          /\ jmut[c] = Len(jtx[c])
          /\ nova_commit_lite_transaction(c, t)
    \/ \E c \in Cpus : Mutate(c)
    \/ \E i \in Inodes : SyncAlter(i)
    \/ Crash
    \/ \E ok \in BOOLEAN : SoftInitAlloc(ok)
    \/ \E ev \in SUBSET junres : SoftInitLoop(ev)
    \/ RecoverUndo
    \/ RecoverFinish
    \/ \E g \in {0, EINVAL} : SoftInitReturn(g)


(***************************************************************************)
(* Copy-on-write write path (dax.c): sizes and state                       *)
(*                                                                         *)
(* One file.  Its log is an array of slots; slot addresses start at 1 and  *)
(* an entry takes one address, so that 0 is the null log pointer.  pi->    *)
(* log_tail is the address of the first slot that is not published.        *)
(* memcpy_to_pmem_nocache and stores followed by nova_flush_buffer are     *)
(* durable when the step that makes them ends.                             *)
(***************************************************************************)

\* sb->s_blocksize (= PAGE_SIZE), scaled down to two bytes per block.
BlockSize == 2

\* File pages, data blocks of the device, and log slots of the inode.
NPages == 3
NBlocks == 4
LogCap == 3
Pages == 0 .. (NPages - 1)
Blocks == 1 .. NBlocks
Slots == 1 .. LogCap

\* Write calls and crashes of the write path in one behaviour.
MaxWrites == 3
MaxWCrash == 1

\* The width of size_t, scaled down to 16 bits.
SizeTMod == 65536

ENOSPC == 28
EFAULT == 14

\* Byte values: 0, the id of the write call that stored the byte, and what
\* a block that was never written holds.
Stale == MaxWrites + 1

ByteIdx == 0 .. (BlockSize - 1)

NoEntry == [pgoff |-> 0, num_pages |-> 0, block |-> 0, size |-> 0,
            reassigned |-> 0, invalid_pages |-> 0, id |-> 0, from |-> 0,
            upto |-> 0]

WIdle == [pc |-> "idle", pos |-> 0, count |-> 0, num_blocks |-> 0,
          total_blocks |-> 0, temp_tail |-> 0, begin_tail |-> 0,
          written |-> 0, status |-> 0, blocknr |-> 0, allocated |-> 0,
          bytes |-> 0, copied |-> 0, ret |-> 0, id |-> 0, tail0 |-> 0,
          got |-> {}, done |-> << >>]

\* (size_t)x and (ssize_t)x.
ToSizeT(x) == x % SizeTMod
ToSSizeT(u) == IF u >= SizeTMod \div 2 THEN u - SizeTMod ELSE u

\* get_nvmm: the block that holds page pgoff of the extent of entry e.
get_nvmm(e, pgoff) == e.block + (pgoff - e.pgoff)

\* nova_get_write_entry: the slot the radix tree maps the page to, or 0.
nova_get_write_entry(t, pgoff) == IF pgoff \in DOMAIN t THEN t[pgoff] ELSE 0

(***************************************************************************)
(* The file as the log describes it                                        *)
(***************************************************************************)

\* The radix tree a scan of the log from its start up to `tail' builds:
\* a later entry takes the pages it covers from an earlier one.
RECURSIVE Rebuild(_, _, _, _)
Rebuild(t, lg, s, tail) ==
    IF s >= tail THEN t
    ELSE Rebuild([pg \in Pages |->
                     IF pg >= lg[s].pgoff /\ pg < lg[s].pgoff + lg[s].num_pages
                     THEN s ELSE t[pg]],
                 lg, s + 1, tail)

EmptyTree == [pg \in Pages |-> 0]

\* Size the scan recovers: the size field of the last entry.
RecoveredSize(lg, tail) == IF tail <= 1 THEN 0 ELSE lg[tail - 1].size

ZeroBlock == [k \in ByteIdx |-> 0]

\* The content of the file under a tree: its pages' bytes (a hole reads as
\* zeros) and its size.
FileContent(t, lg, b, size) ==
    [data |-> [pg \in Pages |->
                  IF t[pg] = 0 THEN ZeroBlock
                  ELSE b[get_nvmm(lg[t[pg]], pg)]],
     size |-> size]

\* The content reachable from a log tail.
ContentAt(lg, tail, b) ==
    FileContent(Rebuild(EmptyTree, lg, 1, tail), lg, b,
                RecoveredSize(lg, tail))

\* The blocks that content lives in.
LiveBlocks(lg, tail) ==
    LET t == Rebuild(EmptyTree, lg, 1, tail)
    IN { get_nvmm(lg[t[pg]], pg) : pg \in { q \in Pages : t[q] # 0 } }

WInit ==
    /\ blk = [b \in Blocks |-> [k \in ByteIdx |-> Stale]]
    /\ free = Blocks
    /\ wlog = [s \in Slots |-> NoEntry]
    /\ log_tail = 1
    /\ tree = EmptyTree
    /\ i_size = 0
    /\ w = WIdle
    /\ wret = 0
    /\ committed = FileContent(EmptyTree, [s \in Slots |-> NoEntry],
                               [b \in Blocks |-> [k \in ByteIdx |-> Stale]], 0)
    /\ nwrites = 0
    /\ wcrash = 0

(***************************************************************************)
(* nova_cow_file_write                                                     *)
(***************************************************************************)

\* The extents nova_new_data_blocks may hand out for a request of num
\* blocks: one to num contiguous free blocks from the start of the first
\* free range.
FreeRuns(fr, num) ==
    { r \in Blocks \X (1 .. NBlocks) :
        /\ r[2] <= num
        /\ \A b \in Blocks : b < r[1] => b \notin fr
        /\ \A b \in r[1] .. (r[1] + r[2] - 1) : b \in fr }

RunBlocks(blocknr, n) == blocknr .. (blocknr + n - 1)

\* A partial copy that takes the head of the old block for the end block
\* too.
nova_copy_partial_block_Head(b, lg, entry, index, offset, kmem, is_end_blk) ==
    LET nvmm == get_nvmm(lg[entry], index)
    IN [b EXCEPT ![kmem] =
           [k \in ByteIdx |->
               IF k < offset THEN b[nvmm][k] ELSE b[kmem][k]]]

\* memcpy(kmem, ptr, offset), or memcpy(kmem + offset, ptr + offset, rest)
\* for the end block, from the block the entry maps the page to.
nova_copy_partial_block(b, lg, entry, index, offset, kmem, is_end_blk) ==
    LET nvmm == get_nvmm(lg[entry], index)
    IN [b EXCEPT ![kmem] =
           [k \in ByteIdx |->
               IF is_end_blk
               THEN (IF k >= offset THEN b[nvmm][k] ELSE b[kmem][k])
               ELSE (IF k < offset THEN b[nvmm][k] ELSE b[kmem][k])]]

\* memset(kmem + from, 0, to - from).
ZeroFill(b, kmem, from, to) ==
    [b EXCEPT ![kmem] =
        [k \in ByteIdx |-> IF k >= from /\ k < to THEN 0 ELSE b[kmem][k]]]

\* The bytes of the first and last new block that the write does not
\* cover: copied from the block mapped there, or zeroed over a hole.
nova_handle_head_tail_blocks(b, t, lg, pos, count, kmem) ==
    LET offset == pos % BlockSize
        num_blocks == ((count + offset - 1) \div BlockSize) + 1
        start_blk == pos \div BlockSize
        end_blk == start_blk + num_blocks - 1
        head == nova_get_write_entry(t, start_blk)
        b1 == IF offset # 0
              THEN (IF head = 0 THEN ZeroFill(b, kmem, 0, offset)
                    ELSE nova_copy_partial_block(b, lg, head, start_blk,
                                                 offset, kmem, FALSE))
              ELSE b
        kmem2 == kmem + (num_blocks - 1)
        eblk_offset == (pos + count) % BlockSize
        last == nova_get_write_entry(t, end_blk)
    IN IF eblk_offset # 0
       THEN (IF last = 0 THEN ZeroFill(b1, kmem2, eblk_offset, BlockSize)
             ELSE nova_copy_partial_block(b1, lg, last, end_blk, eblk_offset,
                                          kmem2, TRUE))
       ELSE b1

\* n bytes of value v stored from byte `offset' of block kmem on.
StoreBytes(b, kmem, offset, n, v) ==
    [x \in Blocks |->
        [k \in ByteIdx |->
            LET at == (x - kmem) * BlockSize + k
            IN IF x >= kmem /\ at >= offset /\ at < offset + n
               THEN v ELSE b[x][k]]]

\* A write in place: the payload goes to the block the page is mapped to
\* when there is one.
CopyPayload_InPlace(b, kmem, offset, copied, id) ==
    LET old == nova_get_write_entry(tree, w.pos \div BlockSize)
    IN StoreBytes(b, IF old = 0 THEN kmem
                     ELSE get_nvmm(wlog[old], w.pos \div BlockSize),
                  offset, copied, id)

\* memcpy_to_pmem_nocache(kmem + offset, buf, bytes) that stored `copied'
\* bytes: the payload of write call id.
CopyPayload(b, kmem, offset, copied, id) ==
    StoreBytes(b, kmem, offset, copied, id)

\* nova_assign_write_entry(.., entry, true) for the entry in slot s: every
\* page of its extent is mapped to it; the block an older entry held for
\* the page is freed and that entry marked.
RECURSIVE nova_assign_write_entry(_, _, _)
nova_assign_write_entry(st, s, i) ==
    IF i >= st.lg[s].num_pages THEN st
    ELSE LET pg == st.lg[s].pgoff + i
             old == nova_get_write_entry(st.t, pg)
         IN IF pg \notin Pages THEN nova_assign_write_entry(st, s, i + 1)
            ELSE nova_assign_write_entry(
                   [t |-> [st.t EXCEPT ![pg] = s],
                    lg |-> IF old = 0 \/ old = s THEN st.lg
                           ELSE [st.lg EXCEPT
                                   ![old].invalid_pages = @ + 1,
                                   ![old].reassigned = 1],
                    fr |-> IF old = 0 \/ old = s THEN st.fr
                           ELSE st.fr \cup {get_nvmm(st.lg[old], pg)}],
                   s, i + 1)

\* A loop that also visits the entry that lies at the tail.
ReassignFrom_Beyond(st, curr_p, tail) ==
    LET RECURSIVE Go(_, _)
        Go(x, p) == IF p > tail \/ p \notin Slots THEN x
                    ELSE Go(nova_assign_write_entry(x, p, 0), p + 1)
    IN Go(st, curr_p)

\* The loop of nova_reassign_file_tree from curr_p up to pi->log_tail.
RECURSIVE ReassignFrom(_, _, _)
ReassignFrom(st, curr_p, tail) ==
    IF curr_p = tail \/ curr_p \notin Slots THEN st
    ELSE ReassignFrom(nova_assign_write_entry(st, curr_p, 0), curr_p + 1,
                      tail)

\* nova_cleanup_incomplete_write: the free set after it.
RECURSIVE CleanupFrom(_, _, _, _)
CleanupFrom(fr, lg, curr_p, end_tail) ==
    IF curr_p = end_tail \/ curr_p \notin Slots THEN fr
    ELSE CleanupFrom(fr \cup RunBlocks(lg[curr_p].block,
                                       lg[curr_p].num_pages),
                     lg, curr_p + 1, end_tail)

\* A cleanup that also frees the blocks of the first entry of the log.
nova_cleanup_incomplete_write_Published(fr, lg, blocknr, allocated, begin_tail, end_tail) ==
    (IF blocknr > 0 /\ allocated > 0
     THEN fr \cup RunBlocks(blocknr, allocated) ELSE fr)
    \cup RunBlocks(lg[1].block, lg[1].num_pages)

nova_cleanup_incomplete_write(fr, lg, blocknr, allocated, begin_tail, end_tail) ==
    LET fr1 == IF blocknr > 0 /\ allocated > 0
               THEN fr \cup RunBlocks(blocknr, allocated) ELSE fr
    IN IF begin_tail = 0 \/ end_tail = 0 THEN fr1
       ELSE CleanupFrom(fr1, lg, begin_tail, end_tail)

\* out: the cleanup runs if (ret < 0), ret being a size_t; the call returns
\* ret as an ssize_t.  fr and lg are the free set and the log at that point.
Out(ret, fr, lg) ==
    /\ free' = IF ret < 0
               THEN nova_cleanup_incomplete_write(fr, lg, w.blocknr,
                        w.allocated, w.begin_tail, w.temp_tail)
               ELSE fr
    /\ wret' = ToSSizeT(ret)
    /\ w' = WIdle

\* Entry of the call up to the loop.
WriteBegin(pos, len, access_ok) ==
    /\ w.pc \in {"idle", "mounted"}
    /\ nwrites < MaxWrites
    /\ nwrites' = nwrites + 1
    /\ IF len = 0
       THEN /\ wret' = 0
            /\ w' = WIdle
            /\ UNCHANGED free
       ELSE IF ~access_ok
            THEN Out(ToSizeT(0 - EFAULT), free, wlog)
            ELSE LET offset == pos % BlockSize
                     num_blocks == ((len + offset - 1) \div BlockSize) + 1
                 IN /\ w' = [WIdle EXCEPT !.pc = "alloc", !.pos = pos,
                                          !.count = len,
                                          !.num_blocks = num_blocks,
                                          !.total_blocks = num_blocks,
                                          !.temp_tail = log_tail,
                                          !.tail0 = log_tail,
                                          !.id = nwrites + 1]
                    /\ UNCHANGED << free, wret >>
    /\ UNCHANGED << blk, wlog, log_tail, tree, i_size, committed, wcrash >>
    /\ UNCHANGED << jvars, rvars, pvars, cvars >>

\* An allocation failure that leaves through the tail update instead of
\* jumping over it.
AllocFail_Publishing(allocated) ==
    /\ w.pc = "alloc"
    /\ Out(ToSizeT(allocated), free, wlog)
    /\ log_tail' = w.temp_tail
    /\ committed' = ContentAt(wlog, w.temp_tail, blk)
    /\ UNCHANGED << blk, wlog, tree, i_size, nwrites, wcrash >>
    /\ UNCHANGED << jvars, rvars, pvars, cvars >>

\* nova_new_data_blocks: a failure (0 or -ENOSPC), or an extent.
AllocFail(allocated) ==
    /\ w.pc = "alloc"
    /\ Out(ToSizeT(allocated), free, wlog)
    /\ UNCHANGED << blk, wlog, log_tail, tree, i_size, committed, nwrites,
                    wcrash >>
    /\ UNCHANGED << jvars, rvars, pvars, cvars >>

Alloc(blocknr, allocated) ==
    /\ w.pc = "alloc"
    /\ << blocknr, allocated >> \in FreeRuns(free, w.num_blocks)
    /\ free' = free \ RunBlocks(blocknr, allocated)
    /\ LET offset == w.pos % BlockSize
           room == BlockSize * allocated - offset
       IN w' = [w EXCEPT !.pc = "fill", !.blocknr = blocknr,
                         !.allocated = allocated,
                         !.bytes = IF room > w.count THEN w.count ELSE room,
                         !.got = @ \cup RunBlocks(blocknr, allocated)]
    /\ UNCHANGED << blk, wlog, log_tail, tree, i_size, wret, committed,
                    nwrites, wcrash >>
    /\ UNCHANGED << jvars, rvars, pvars, cvars >>

Fill ==
    /\ w.pc = "fill"
    /\ LET offset == w.pos % BlockSize
       IN blk' = IF offset # 0 \/ (offset + w.bytes) % BlockSize # 0
                 THEN nova_handle_head_tail_blocks(blk, tree, wlog, w.pos,
                                                   w.bytes, w.blocknr)
                 ELSE blk
    /\ w' = [w EXCEPT !.pc = "copy"]
    /\ UNCHANGED << free, wlog, log_tail, tree, i_size, wret, committed,
                    nwrites, wcrash >>
    /\ UNCHANGED << jvars, rvars, pvars, cvars >>

\* A copy step that reports the bytes as copied and stores none of them.
Copy_NoStore(copied) ==
    /\ w.pc = "copy"
    /\ copied \in {0, w.bytes - 1, w.bytes}
    /\ w' = [w EXCEPT !.pc = "append", !.copied = copied]
    /\ UNCHANGED << blk, free, wlog, log_tail, tree, i_size, wret, committed,
                    nwrites, wcrash >>
    /\ UNCHANGED << jvars, rvars, pvars, cvars >>

\* copied = bytes - memcpy_to_pmem_nocache(kmem + offset, buf, bytes).
Copy(copied) ==
    /\ w.pc = "copy"
    /\ copied \in {0, w.bytes - 1, w.bytes}
    /\ blk' = CopyPayload(blk, w.blocknr, w.pos % BlockSize, copied, w.id)
    /\ w' = [w EXCEPT !.pc = "append", !.copied = copied]
    /\ UNCHANGED << free, wlog, log_tail, tree, i_size, wret, committed,
                    nwrites, wcrash >>
    /\ UNCHANGED << jvars, rvars, pvars, cvars >>

(***************************************************************************)
(* Data checksums                                                          *)
(***************************************************************************)

NOVA_INIT_CSUM == 1

\* A byte that a media error left in a block.
Bad == Stale + 1

\* crc32c, one byte at a time: the model's checksum tells any two blocks
\* apart.
CrcByte(c, byte) == (c * 8 + byte + 1) % 65536

\* crc32c(init, buf, size), buf given as the sequence of its bytes.
RECURSIVE nova_calc_data_csum(_, _)
nova_calc_data_csum(init, buf) ==
    IF buf = << >> THEN init
    ELSE nova_calc_data_csum(CrcByte(init, Head(buf)), Tail(buf))

\* The bytes [from, to) of a block, and n bytes of the write buffer of call
\* id.
BlockBytes(bl, from, to) == [i \in 1 .. (to - from) |-> bl[from + i - 1]]
BufBytes(id, n) == [i \in 1 .. n |-> id]

\* The while loop and the partial tail block of nova_update_cow_csum.
RECURSIVE CowCsumRest(_, _, _, _, _, _)
CowCsumRest(cs, b, blocknr, csummed, bytes, id) ==
    IF csummed + BlockSize < bytes
    THEN CowCsumRest([cs EXCEPT ![blocknr] =
                         nova_calc_data_csum(NOVA_INIT_CSUM,
                                             BufBytes(id, BlockSize))],
                     b, blocknr + 1, csummed + BlockSize, bytes, id)
    ELSE IF csummed < bytes
         THEN [cs EXCEPT ![blocknr] =
                  nova_calc_data_csum(
                      nova_calc_data_csum(NOVA_INIT_CSUM,
                                          BufBytes(id, bytes - csummed)),
                      BlockBytes(b[blocknr], bytes - csummed, BlockSize))]
         ELSE cs

\* A checksum update that leaves out the partial tail block.
CowCsumStores_NoTail(blocknr, offset, bytes) ==
    LET head == offset # 0
        csummed == IF head
                   THEN (IF BlockSize - offset < bytes
                         THEN BlockSize - offset ELSE bytes)
                   ELSE 0
        RECURSIVE Loop(_, _, _)
        Loop(st, b, c) ==
            IF c + BlockSize < bytes
            THEN Loop(Append(st, b), b + 1, c + BlockSize)
            ELSE [stores |-> st, left |-> bytes - c]
    IN Loop(IF head THEN << blocknr >> ELSE << >>,
            IF head THEN blocknr + 1 ELSE blocknr, csummed)

\* nova_update_cow_csum: the blocks whose checksum it stores, in the order
\* of the stores, and what it returns (bytes - csummed).
CowCsumStores(blocknr, offset, bytes) ==
    LET head == offset # 0
        csummed == IF head
                   THEN (IF BlockSize - offset < bytes
                         THEN BlockSize - offset ELSE bytes)
                   ELSE 0
        RECURSIVE Loop(_, _, _)
        Loop(st, b, c) ==
            IF c + BlockSize < bytes
            THEN Loop(Append(st, b), b + 1, c + BlockSize)
            ELSE IF c < bytes
                 THEN [stores |-> Append(st, b), left |-> bytes - bytes]
                 ELSE [stores |-> st, left |-> bytes - c]
    IN IF csummed < bytes
       THEN Loop(IF head THEN << blocknr >> ELSE << >>,
                 IF head THEN blocknr + 1 ELSE blocknr, csummed)
       ELSE [stores |-> IF head THEN << blocknr >> ELSE << >>,
             left |-> bytes - csummed]

\* A checksum update that covers the bytes of the write buffer only.
nova_update_cow_csum_BufOnly(cs, b, blocknr, offset, bytes, id) ==
    [x \in Blocks |->
        IF x >= blocknr /\ (x - blocknr) * BlockSize < offset + bytes
        THEN nova_calc_data_csum(NOVA_INIT_CSUM, BufBytes(id, BlockSize))
        ELSE cs[x]]

\* nova_update_cow_csum: the stored checksums after the update for `bytes'
\* bytes of the write buffer of call id put at `offset' of block blocknr.
nova_update_cow_csum(cs, b, blocknr, offset, bytes, id) ==
    LET room == BlockSize - offset
        csummed == IF offset # 0
                   THEN (IF room < bytes THEN room ELSE bytes)
                   ELSE 0
        head == nova_calc_data_csum(
                    nova_calc_data_csum(NOVA_INIT_CSUM,
                                        BlockBytes(b[blocknr], 0, offset)),
                    BufBytes(id, csummed))
        whole == IF offset + csummed < BlockSize
                 THEN nova_calc_data_csum(head,
                          BlockBytes(b[blocknr], offset + csummed, BlockSize))
                 ELSE head
    IN IF offset # 0
       THEN (IF csummed < bytes
             THEN CowCsumRest([cs EXCEPT ![blocknr] = whole], b, blocknr + 1,
                              csummed, bytes, id)
             ELSE [cs EXCEPT ![blocknr] = whole])
       ELSE CowCsumRest(cs, b, blocknr, 0, bytes, id)

\* The for loop of nova_verify_data_csum over `blocks' blocks from blocknr
\* on.
RECURSIVE VerifyFrom(_, _, _, _)
VerifyFrom(cs, b, blocknr, blocks) ==
    IF blocks = 0 THEN TRUE
    ELSE IF blocknr \notin Blocks THEN FALSE
    ELSE IF nova_calc_data_csum(NOVA_INIT_CSUM,
                                BlockBytes(b[blocknr], 0, BlockSize))
            # cs[blocknr]
         THEN FALSE
         ELSE VerifyFrom(cs, b, blocknr + 1, blocks - 1)

\* A verification that finds every block good.
nova_verify_data_csum_Pass(cs, b, entry, index, blocks) == TRUE

\* nova_verify_data_csum(inode, entry, index, blocks).
nova_verify_data_csum(cs, b, entry, index, blocks) ==
    VerifyFrom(cs, b, get_nvmm(entry, index), blocks)

\* An entry that records the blocks asked for instead of the blocks the
\* allocator gave.
EntryData_Requested ==
    [pgoff |-> w.pos \div BlockSize,
     num_pages |-> w.num_blocks,
     block |-> w.blocknr,
     size |-> IF w.pos + w.copied > i_size THEN w.pos + w.copied ELSE i_size,
     reassigned |-> 0,
     invalid_pages |-> 0,
     id |-> w.id,
     from |-> w.pos,
     upto |-> w.pos + w.copied]

\* The entry the iteration appends.
EntryData ==
    [pgoff |-> w.pos \div BlockSize,
     num_pages |-> w.allocated,
     block |-> w.blocknr,
     size |-> IF w.pos + w.copied > i_size THEN w.pos + w.copied ELSE i_size,
     reassigned |-> 0,
     invalid_pages |-> 0,
     id |-> w.id,
     from |-> w.pos,
     upto |-> w.pos + w.copied]

\* An append that publishes each entry as soon as it is appended.
AppendEntry_Publishing(ok) ==
    /\ w.pc = "append"
    /\ LET curr_entry == IF ok /\ w.temp_tail \in Slots THEN w.temp_tail
                         ELSE 0
           moved == w.copied > 0
           status1 == IF moved THEN w.copied ELSE w.status
           status == IF w.copied # w.bytes /\ status1 >= 0
                     THEN 0 - EFAULT ELSE status1
           num_blocks == IF moved THEN w.num_blocks - w.allocated
                         ELSE w.num_blocks
       IN IF curr_entry = 0
          THEN /\ Out(ToSizeT(0 - ENOSPC), free, wlog)
               /\ UNCHANGED << wlog, log_tail, committed, csum >>
          ELSE /\ wlog' = [wlog EXCEPT ![curr_entry] = EntryData]
               /\ w' = [w EXCEPT
                         !.status = status,
                         !.written = IF moved THEN @ + w.copied ELSE @,
                         !.pos = IF moved THEN @ + w.copied ELSE @,
                         !.count = IF moved THEN @ - w.copied ELSE @,
                         !.num_blocks = num_blocks,
                         !.begin_tail = IF status >= 0 /\ @ = 0
                                        THEN curr_entry ELSE @,
                         !.temp_tail = IF status >= 0 THEN curr_entry + 1
                                       ELSE @,
                         !.done = IF status >= 0 THEN Append(@, curr_entry)
                                  ELSE @,
                         !.pc = IF status >= 0 /\ num_blocks > 0
                                THEN "alloc" ELSE "publish"]
               /\ log_tail' = IF status >= 0 THEN curr_entry + 1 ELSE log_tail
               /\ committed' = ContentAt(wlog', log_tail', blk)
               /\ csum' = IF w.copied > 0
                          THEN nova_update_cow_csum(csum, blk, w.blocknr,
                                   w.pos % BlockSize, w.copied, w.id)
                          ELSE csum
               /\ UNCHANGED << free, wret >>
    /\ UNCHANGED << blk, tree, i_size, nwrites, wcrash >>
    /\ UNCHANGED << jvars, rd, nbad, pvars, cvars >>

\* An iteration that leaves num_blocks as it was.
AppendEntry_NoProgress(ok) ==
    /\ w.pc = "append"
    /\ LET curr_entry == IF ok /\ w.temp_tail \in Slots THEN w.temp_tail
                         ELSE 0
           moved == w.copied > 0
           status1 == IF moved THEN w.copied ELSE w.status
           status == IF w.copied # w.bytes /\ status1 >= 0
                     THEN 0 - EFAULT ELSE status1
           num_blocks == w.num_blocks
       IN IF curr_entry = 0
          THEN /\ Out(ToSizeT(0 - ENOSPC), free, wlog)
               /\ UNCHANGED << wlog, csum >>
          ELSE /\ wlog' = [wlog EXCEPT ![curr_entry] = EntryData]
               /\ w' = [w EXCEPT
                         !.status = status,
                         !.written = IF moved THEN @ + w.copied ELSE @,
                         !.pos = IF moved THEN @ + w.copied ELSE @,
                         !.count = IF moved THEN @ - w.copied ELSE @,
                         !.num_blocks = num_blocks,
                         !.begin_tail = IF status >= 0 /\ @ = 0
                                        THEN curr_entry ELSE @,
                         !.temp_tail = IF status >= 0 THEN curr_entry + 1
                                       ELSE @,
                         !.done = IF status >= 0 THEN Append(@, curr_entry)
                                  ELSE @,
                         !.pc = IF status >= 0 /\ num_blocks > 0
                                THEN "alloc" ELSE "publish"]
               /\ csum' = IF w.copied > 0
                          THEN nova_update_cow_csum(csum, blk, w.blocknr,
                                   w.pos % BlockSize, w.copied, w.id)
                          ELSE csum
               /\ UNCHANGED << free, wret >>
    /\ UNCHANGED << blk, log_tail, tree, i_size, committed, nwrites, wcrash >>
    /\ UNCHANGED << jvars, rd, nbad, pvars, cvars >>

\* nova_append_file_write_entry at temp_tail and the rest of the iteration.
AppendEntry(ok) ==
    /\ w.pc = "append"
    /\ LET curr_entry == IF ok /\ w.temp_tail \in Slots THEN w.temp_tail
                         ELSE 0
           moved == w.copied > 0
           status1 == IF moved THEN w.copied ELSE w.status
           status == IF w.copied # w.bytes /\ status1 >= 0
                     THEN 0 - EFAULT ELSE status1
           num_blocks == IF moved THEN w.num_blocks - w.allocated
                         ELSE w.num_blocks
       IN IF curr_entry = 0
          THEN /\ Out(ToSizeT(0 - ENOSPC), free, wlog)
               /\ UNCHANGED << wlog, csum >>
          ELSE /\ wlog' = [wlog EXCEPT ![curr_entry] = EntryData]
               /\ w' = [w EXCEPT
                         !.status = status,
                         !.written = IF moved THEN @ + w.copied ELSE @,
                         !.pos = IF moved THEN @ + w.copied ELSE @,
                         !.count = IF moved THEN @ - w.copied ELSE @,
                         !.num_blocks = num_blocks,
                         !.begin_tail = IF status >= 0 /\ @ = 0
                                        THEN curr_entry ELSE @,
                         !.temp_tail = IF status >= 0 THEN curr_entry + 1
                                       ELSE @,
                         !.done = IF status >= 0 THEN Append(@, curr_entry)
                                  ELSE @,
                         !.pc = IF status >= 0 /\ num_blocks > 0
                                THEN "alloc" ELSE "publish"]
               /\ csum' = IF w.copied > 0
                          THEN nova_update_cow_csum(csum, blk, w.blocknr,
                                   w.pos % BlockSize, w.copied, w.id)
                          ELSE csum
               /\ UNCHANGED << free, wret >>
    /\ UNCHANGED << blk, log_tail, tree, i_size, committed, nwrites, wcrash >>
    /\ UNCHANGED << jvars, rd, nbad, pvars, cvars >>

\* nova_update_tail(pi, temp_tail).
Publish ==
    /\ w.pc = "publish"
    /\ log_tail' = w.temp_tail
    /\ committed' = ContentAt(wlog, w.temp_tail, blk)
    /\ w' = [w EXCEPT !.pc = "reassign"]
    /\ UNCHANGED << blk, free, wlog, tree, i_size, wret, nwrites, wcrash >>
    /\ UNCHANGED << jvars, rvars, pvars, cvars >>

\* nova_reassign_file_tree(begin_tail) and the end of the call.
Reassign ==
    /\ w.pc = "reassign"
    /\ IF w.begin_tail = 0
       THEN /\ Out(ToSizeT(0 - EINVAL), free, wlog)
            /\ UNCHANGED << wlog, tree, i_size >>
       ELSE LET st == ReassignFrom([t |-> tree, lg |-> wlog, fr |-> free],
                                   w.begin_tail, log_tail)
            IN /\ tree' = st.t
               /\ wlog' = st.lg
               /\ i_size' = IF w.pos > i_size THEN w.pos ELSE i_size
               /\ Out(ToSizeT(w.written), st.fr, st.lg)
    /\ UNCHANGED << blk, log_tail, committed, nwrites, wcrash >>
    /\ UNCHANGED << jvars, rvars, pvars, cvars >>

\* The log after the scan of a mount: replaying the published entries marks
\* every entry that a later one took a page from, as nova_assign_write_entry
\* had or would have marked it.
MarkSuperseded(lg, tail) ==
    LET t == Rebuild(EmptyTree, lg, 1, tail)
    IN [s \in Slots |->
          LET lost == { pg \in Pages : /\ pg >= lg[s].pgoff
                                       /\ pg < lg[s].pgoff + lg[s].num_pages
                                       /\ t[pg] # s }
          IN IF s >= tail \/ lost = {} THEN lg[s]
             ELSE [lg[s] EXCEPT !.reassigned = 1,
                                !.invalid_pages = Cardinality(lost)]]

\* Power failure and remount: DRAM state is rebuilt from the log up to the
\* persisted tail.
WCrash ==
    /\ wcrash < MaxWCrash
    /\ wcrash' = wcrash + 1
    /\ tree' = Rebuild(EmptyTree, wlog, 1, log_tail)
    /\ free' = Blocks \ LiveBlocks(wlog, log_tail)
    /\ i_size' = RecoveredSize(wlog, log_tail)
    /\ wlog' = MarkSuperseded(wlog, log_tail)
    /\ w' = [WIdle EXCEPT !.pc = "mounted"]
    /\ UNCHANGED << blk, log_tail, wret, committed, nwrites >>
    /\ UNCHANGED << jvars, rvars, pvars, cvars >>

\* The write and read calls of Spec and RSpec stay within the first two
\* pages of the file.
MaxBytes == 2 * BlockSize

WNext ==
    \/ \E pos \in 0 .. (MaxBytes - 1), ok \in BOOLEAN :
          \E len \in 0 .. (MaxBytes - pos) : WriteBegin(pos, len, ok)
    \/ \E a \in {0, 0 - ENOSPC} : AllocFail(a)
    \/ \E b \in Blocks, n \in 1 .. NBlocks : Alloc(b, n)
    \/ Fill
    \/ \E c \in 0 .. MaxBytes : Copy(c)
    \/ \E ok \in BOOLEAN : AppendEntry(ok)
    \/ Publish
    \/ Reassign
    \/ WCrash

(***************************************************************************)
(* do_dax_mapping_read                                                     *)
(*                                                                         *)
(* The file system is mounted with data checksums (block_csum_base # 0).   *)
(* A read call is one step: it runs between write calls.  rd keeps its     *)
(* arguments and what it gave its caller until the caller takes it.        *)
(***************************************************************************)

EIO == 5

\* Media errors in one behaviour.
MaxBad == 1

NoRead == [pc |-> "idle", pos |-> 0, len |-> 0, ok |-> TRUE, fault |-> 0,
           ret |-> 0, data |-> << >>, srcs |-> {}]

RInit ==
    /\ csum = [x \in Blocks |-> 0]
    /\ rd = NoRead
    /\ nbad = 0

\* out: return (copied ? copied : error), error being a size_t.
ReadOut(st, error) ==
    [ret |-> IF st.copied # 0 THEN st.copied ELSE ToSSizeT(ToSizeT(error)),
     data |-> st.data, srcs |-> st.srcs]

\* A chunk that always runs to the end of the entry's extent.
ReadExtentBytes_Whole(e, index) ==
    (e.num_pages - (index - e.pgoff)) * BlockSize

\* nr for a mapped page: the rest of the extent of an entry that is not
\* reassigned, one page otherwise.
ReadExtentBytes(e, index) ==
    IF e.reassigned = 0
    THEN (e.num_pages - (index - e.pgoff)) * BlockSize
    ELSE BlockSize

\* n bytes from byte `offset' of block nvmm on, across block boundaries.
ExtentBytes(b, nvmm, offset, n) ==
    [i \in 1 .. n |->
        b[nvmm + ((offset + i - 1) \div BlockSize)][(offset + i - 1) % BlockSize]]

\* The do-while loop.  st holds index, offset, copied, the bytes given to
\* the caller's buffer, the blocks they came from and the number of the
\* chunk; __copy_to_user leaves `left' bytes uncopied at chunk `fault'.
RECURSIVE ReadLoop(_, _, _, _)
ReadLoop(st, len, fault, left_in) ==
    LET end_index == (i_size - 1) \div BlockSize
        last_nr == ((i_size - 1) % BlockSize) + 1
        entry == nova_get_write_entry(tree, st.index)
        zero == entry = 0
        e == IF zero THEN NoEntry ELSE wlog[entry]
        nr0 == IF zero THEN BlockSize ELSE ReadExtentBytes(e, st.index)
        nr1 == nr0 - st.offset
        nr == IF nr1 > len - st.copied THEN len - st.copied ELSE nr1
        nvmm == get_nvmm(e, st.index)
        csum_blks == ((st.offset + nr - 1) \div BlockSize) + 1
        left == IF fault = st.chunk
                THEN (IF left_in > nr THEN nr ELSE left_in) ELSE 0
        got == nr - left
        bytes == IF zero THEN [i \in 1 .. got |-> 0]
                 ELSE ExtentBytes(blk, nvmm, st.offset, got)
        from == IF zero THEN {}
                ELSE { nvmm + ((st.offset + i - 1) \div BlockSize) :
                          i \in 1 .. got }
        off2 == st.offset + got
        st2 == [index |-> st.index + (off2 \div BlockSize),
                offset |-> off2 % BlockSize,
                copied |-> st.copied + got,
                data |-> st.data \o bytes,
                srcs |-> st.srcs \cup from,
                chunk |-> st.chunk + 1]
    IN IF st.index > end_index THEN ReadOut(st, 0)
       ELSE IF st.index = end_index /\ last_nr <= st.offset
       THEN ReadOut(st, 0)
       ELSE IF ~zero /\ (st.index < e.pgoff
                         \/ st.index - e.pgoff >= e.num_pages)
       THEN [ret |-> 0 - EINVAL, data |-> st.data, srcs |-> st.srcs]
       ELSE IF ~zero /\ ~nova_verify_data_csum(csum, blk, e, st.index,
                                               csum_blks)
       THEN ReadOut(st, 0 - EIO)
       ELSE IF left # 0
       THEN ReadOut([st EXCEPT !.data = @ \o bytes,
                               !.srcs = @ \cup from], 0 - EFAULT)
       ELSE IF st2.copied < len THEN ReadLoop(st2, len, fault, left_in)
       ELSE ReadOut(st2, 0)

\* A read that takes len as its caller gave it.
do_dax_mapping_read_NoClip(pos, len, access_ok, fault, left_in) ==
    LET st0 == [index |-> pos \div BlockSize, offset |-> pos % BlockSize,
                copied |-> 0, data |-> << >>, srcs |-> {}, chunk |-> 1]
    IN IF ~access_ok THEN ReadOut(st0, 0 - EFAULT)
       ELSE IF i_size = 0 \/ len = 0 THEN ReadOut(st0, 0)
       ELSE ReadLoop(st0, len, fault, left_in)

\* do_dax_mapping_read(filp, buf, len, ppos) with *ppos = pos.  The test
\* len > isize - pos compares unsigned values, so it clips len only when
\* pos <= isize.
do_dax_mapping_read(pos, len, access_ok, fault, left_in) ==
    LET st0 == [index |-> pos \div BlockSize, offset |-> pos % BlockSize,
                copied |-> 0, data |-> << >>, srcs |-> {}, chunk |-> 1]
        len1 == IF pos <= i_size /\ len > i_size - pos THEN i_size - pos
                ELSE len
    IN IF ~access_ok THEN ReadOut(st0, 0 - EFAULT)
       ELSE IF i_size = 0 \/ len1 = 0 THEN ReadOut(st0, 0)
       ELSE ReadLoop(st0, len1, fault, left_in)

\* A read call, from entry to return.
Read(pos, len, access_ok, fault, left_in) ==
    /\ w.pc \in {"idle", "mounted"}
    /\ rd.pc = "idle"
    /\ LET res == do_dax_mapping_read(pos, len, access_ok, fault, left_in)
       IN rd' = [pc |-> "done", pos |-> pos, len |-> len, ok |-> access_ok,
                 fault |-> fault, ret |-> res.ret, data |-> res.data,
                 srcs |-> res.srcs]
    /\ UNCHANGED << csum, nbad >>
    /\ UNCHANGED << jvars, wvars, pvars, cvars >>

\* The caller has taken the result.
ReadReturn ==
    /\ rd.pc = "done"
    /\ rd' = NoRead
    /\ UNCHANGED << csum, nbad >>
    /\ UNCHANGED << jvars, wvars, pvars, cvars >>

\* A media error changes byte k of a block that holds file content and
\* leaves its stored checksum alone.
Corrupt(x, k) ==
    /\ w.pc \in {"idle", "mounted"}
    /\ rd.pc = "idle"
    /\ nbad < MaxBad
    /\ x \in LiveBlocks(wlog, log_tail)
    /\ nbad' = nbad + 1
    /\ blk' = [blk EXCEPT ![x][k] = Bad]
    /\ UNCHANGED << free, wlog, log_tail, tree, i_size, w, wret, committed,
                    nwrites, wcrash >>
    /\ UNCHANGED << csum, rd >>
    /\ UNCHANGED << jvars, pvars, cvars >>

\* The read calls the model issues, as << pos, len, access_ok, fault,
\* left >>: every range with no fault of __copy_to_user; the whole file
\* with one byte left at the first chunk or the whole second chunk left; an
\* empty read; a buffer that fails access_ok.
ReadArgs ==
    { << pos, len, TRUE, 0, 0 >> :
         pos \in 0 .. MaxBytes, len \in 1 .. MaxBytes }
    \cup { << 0, MaxBytes, TRUE, 1, 1 >>,
           << 0, MaxBytes, TRUE, 2, MaxBytes >>,
           << 0, 0, TRUE, 0, 0 >>, << 0, 1, FALSE, 0, 0 >> }

\* Write calls in a behaviour of RSpec.
RWrites == 2

\* Reads between the write calls; after a media error the file is only
\* read.
RNext ==
    \/ \E pos \in 0 .. (MaxBytes - 1) : \E len \in 0 .. (MaxBytes - pos) :
          /\ rd.pc = "idle" /\ nbad = 0 /\ nwrites < RWrites
          /\ WriteBegin(pos, len, TRUE)
    \/ \E b \in Blocks, n \in 1 .. NBlocks : Alloc(b, n)
    \/ Fill
    \/ \E c \in 0 .. MaxBytes : Copy(c)
    \/ AppendEntry(TRUE)
    \/ Publish
    \/ Reassign
    \/ rd.pc = "idle" /\ nbad = 0 /\ WCrash
    \/ \E a \in ReadArgs : Read(a[1], a[2], a[3], a[4], a[5])
    \/ ReadReturn
    \/ \E x \in Blocks, k \in ByteIdx : Corrupt(x, k)

(***************************************************************************)
(* nova_dax_get_blocks                                                     *)
(*                                                                         *)
(* The block lookup of a page fault.  nova_dax_fault holds i_mutex around  *)
(* it, so a call is one step between write calls.                          *)
(***************************************************************************)

NoGetBlocks == [pc |-> "idle", iblock |-> 0, max_blocks |-> 0, create |-> FALSE,
                ret |-> 0, nvmm |-> 0, hit |-> FALSE, before |-> << >>]

\* A lookup that counts the rest of the extent whatever pages the entry
\* has lost.
GetBlocksFound_Rest(e, iblock, max_blocks) ==
    IF e.num_pages - (iblock - e.pgoff) > max_blocks THEN max_blocks
    ELSE e.num_pages - (iblock - e.pgoff)

\* num_blocks when a write entry maps iblock: the rest of the extent of an
\* entry that lost no page, one block otherwise, capped by max_blocks.
GetBlocksFound(e, iblock, max_blocks) ==
    LET num_blocks == IF e.invalid_pages = 0
                      THEN e.num_pages - (iblock - e.pgoff)
                      ELSE 1
    IN IF num_blocks > max_blocks THEN max_blocks ELSE num_blocks

\* A hole filled by an entry that records the size with the hole's end.
GetBlocksEntry_Extending(iblock, num_blocks, blocknr, size) ==
    [NoEntry EXCEPT !.pgoff = iblock, !.num_pages = num_blocks,
                    !.block = blocknr,
                    !.size = IF (iblock + num_blocks) * BlockSize > size
                             THEN (iblock + num_blocks) * BlockSize
                             ELSE size]

\* entry_data of the fault: the extent and inode->i_size.
GetBlocksEntry(iblock, num_blocks, blocknr, size) ==
    [NoEntry EXCEPT !.pgoff = iblock, !.num_pages = num_blocks,
                    !.block = blocknr, !.size = size]

\* nova_find_next_entry(sb, sih, iblock): the entry of the first mapped page
\* after iblock, 0 when no later page is mapped.
nova_find_next_entry(t, iblock) ==
    LET later == { pg \in DOMAIN t : pg > iblock /\ t[pg] # 0 }
    IN IF later = {} THEN 0
       ELSE t[CHOOSE pg \in later : \A q \in later : pg <= q]

\* A hole filled with max_blocks blocks whatever entry follows it.
FillHoleBlocks_Uncapped(next_pgoff, found, iblock, max_blocks) == max_blocks

\* num_blocks asked of the allocator for a hole at iblock: max_blocks, or
\* the blocks up to the next entry's pgoff when one is found and that is
\* fewer.
FillHoleBlocks(next_pgoff, found, iblock, max_blocks) ==
    IF ~ found THEN max_blocks
    ELSE IF next_pgoff - iblock > max_blocks THEN max_blocks
    ELSE next_pgoff - iblock

\* nova_dax_get_blocks(inode, iblock, max_blocks, bh, create) on the state
\* st = [t, lg, fr, tail, b, size]: the state after the call, what it
\* returns and the block it maps the buffer head to.  nova_new_data_blocks
\* gives `allocated' zeroed blocks from blocknr on, or allocated <= 0;
\* append_ok tells whether the log has room for the entry.
nova_dax_get_blocks(st, iblock, max_blocks, create, blocknr, allocated, append_ok) ==
    LET entry == nova_get_write_entry(st.t, iblock)
        next == nova_find_next_entry(st.t, iblock)
        hole == FillHoleBlocks(IF next = 0 THEN 0 ELSE st.lg[next].pgoff,
                               next # 0, iblock, max_blocks)
        curr_entry == IF append_ok /\ st.tail \in Slots THEN st.tail ELSE 0
        lg1 == [st.lg EXCEPT ![curr_entry] =
                   GetBlocksEntry(iblock, allocated, blocknr, st.size)]
        b1 == [x \in Blocks |->
                  IF x \in RunBlocks(blocknr, allocated) THEN ZeroBlock
                  ELSE st.b[x]]
        re == ReassignFrom([t |-> st.t, lg |-> lg1,
                            fr |-> st.fr \ RunBlocks(blocknr, allocated)],
                           curr_entry, curr_entry + 1)
    IN IF max_blocks = 0
       THEN [st |-> st, ret |-> 0, nvmm |-> 0, asked |-> 0]
       ELSE IF entry # 0
       THEN [st |-> st,
             ret |-> GetBlocksFound(st.lg[entry], iblock, max_blocks),
             nvmm |-> get_nvmm(st.lg[entry], iblock), asked |-> 0]
       ELSE IF ~ create
       THEN [st |-> st, ret |-> 0, nvmm |-> 0, asked |-> 0]
       ELSE IF next # 0 /\ st.lg[next].pgoff <= iblock
       THEN [st |-> st, ret |-> 0 - EINVAL, nvmm |-> 0, asked |-> 0]
       ELSE IF allocated < 0
       THEN \* out: cleanup with blocknr = 0 and allocated < 0
            [st |-> [st EXCEPT !.fr = nova_cleanup_incomplete_write(
                                          st.fr, st.lg, 0, allocated, 0, 0)],
             ret |-> allocated, nvmm |-> 0, asked |-> hole]
       ELSE IF allocated = 0
       THEN \* ret = 0 is no error: the buffer head is mapped to nvmm = 0
            [st |-> st, ret |-> hole, nvmm |-> 0, asked |-> hole]
       ELSE IF curr_entry = 0
       THEN \* -ENOSPC: cleanup (temp_tail = 0) frees the blocks again,
            \* zeroed
            [st |-> [st EXCEPT
                       !.b = b1,
                       !.fr = nova_cleanup_incomplete_write(
                                  st.fr \ RunBlocks(blocknr, allocated),
                                  st.lg, blocknr, allocated, 0, 0)],
             ret |-> 0 - ENOSPC, nvmm |-> 0, asked |-> hole]
       ELSE [st |-> [t |-> re.t, lg |-> re.lg, fr |-> re.fr,
                     tail |-> curr_entry + 1, b |-> b1, size |-> st.size],
             ret |-> allocated, nvmm |-> blocknr, asked |-> hole]

\* A page fault's call of nova_dax_get_blocks, from entry to return.
GetBlocks(iblock, max_blocks, create, blocknr, allocated, append_ok) ==
    /\ w.pc \in {"idle", "mounted"}
    /\ gb.pc = "idle"
    /\ LET st == [t |-> tree, lg |-> wlog, fr |-> free, tail |-> log_tail,
                  b |-> blk, size |-> i_size]
           res == nova_dax_get_blocks(st, iblock, max_blocks, create, blocknr,
                                      allocated, append_ok)
       IN \* the allocator and the log are asked only when a hole is filled
          /\ IF res.asked = 0 THEN blocknr = 1 /\ allocated = 0 /\ append_ok
             ELSE IF allocated <= 0 THEN blocknr = 1 /\ append_ok
             ELSE << blocknr, allocated >> \in FreeRuns(free, res.asked)
          /\ tree' = res.st.t
          /\ wlog' = res.st.lg
          /\ free' = res.st.fr
          /\ log_tail' = res.st.tail
          /\ blk' = res.st.b
          /\ i_size' = res.st.size
          /\ committed' = ContentAt(res.st.lg, res.st.tail, res.st.b)
          /\ UNCHANGED << th, i_mutex, mapped, lpage, lcur, ltail, lfree, lblk, nops >>
          /\ gb' = [pc |-> "done", iblock |-> iblock, max_blocks |-> max_blocks,
                    create |-> create, ret |-> res.ret, nvmm |-> res.nvmm,
                    hit |-> nova_get_write_entry(tree, iblock) # 0,
                    before |-> st]
    /\ UNCHANGED << w, wret, nwrites, wcrash >>
    /\ UNCHANGED << jvars, rvars, pvars >>

\* The fault handler has taken the result.
GetBlocksReturn ==
    /\ gb.pc = "done"
    /\ gb' = NoGetBlocks
    /\ UNCHANGED << th, i_mutex, mapped, lpage, lcur, ltail, lfree, lblk, nops >>
    /\ UNCHANGED << jvars, wvars, rvars, pvars >>

\* Page faults between the write calls of a file of NPages pages; a fault
\* asks for blocks within the file's pages.  The copy of the last write call
\* may store nothing (a fault on the user buffer).
GNext ==
    \/ \E pos \in 0 .. (NPages * BlockSize - 1) :
          \E len \in 1 .. (NPages * BlockSize - pos) :
             /\ gb.pc = "idle" /\ nwrites < RWrites
             /\ WriteBegin(pos, len, TRUE)
    \/ \E b \in Blocks, n \in 1 .. NBlocks : Alloc(b, n)
    \/ Fill
    \/ \E c \in 0 .. (NPages * BlockSize) :
          /\ c = w.bytes \/ (c = 0 /\ nwrites = RWrites)
          /\ Copy(c)
    \/ AppendEntry(TRUE)
    \/ Publish
    \/ Reassign
    \/ \E iblock \in Pages, create \in BOOLEAN :
          \E max_blocks \in 0 .. (NPages - iblock) :
          \E b \in Blocks, n \in {0 - ENOSPC} \cup (0 .. NBlocks), ok \in BOOLEAN :
             GetBlocks(iblock, max_blocks, create, b, n, ok)
    \/ GetBlocksReturn

(***************************************************************************)
(* Threads: nova_cow_file_write, nova_dax_fault, nova_dax_file_read and    *)
(* mmap on the same and on different inodes                                *)
(*                                                                         *)
(* Each file has one page.  A write stores the id of its call in the block *)
(* it allocated; a step is what a thread does between two points where     *)
(* another thread can be seen to run.                                      *)
(***************************************************************************)

NThreads == 2

\* Blocks of the allocator the threads share, and calls (mmap and munmap
\* included) in one behaviour.
NLBlocks == 2
MaxOps == 4

EACCES == 13

ThIdle == [pc |-> "idle", op |-> "none", ino |-> 1, len |-> 0, ret |-> 0,
           id |-> 0, blocknr |-> 0, temp_tail |-> 0, nvmm |-> 0, seen |-> 0,
           data |-> 0]

LInit ==
    /\ th = [t \in 1 .. NThreads |-> ThIdle]
    /\ i_mutex = [i \in Inodes |-> 0]
    /\ mapped = [i \in Inodes |-> FALSE]
    /\ lpage = [i \in Inodes |-> 0]
    /\ lcur = [i \in Inodes |-> 0]
    /\ ltail = [i \in Inodes |-> 0]
    /\ lfree = 1 .. NLBlocks
    /\ lblk = [b \in 1 .. NLBlocks |-> 0]
    /\ nops = 0

\* An entry that does not look at the mapping.
Enter_NoMappedCheck(t, op, ino, len) ==
    /\ th[t].pc = "idle"
    /\ nops < MaxOps
    /\ nops' = nops + 1
    /\ op = "fault" => mapped[ino]
    /\ th' = [th EXCEPT ![t] =
                [ThIdle EXCEPT !.op = op, !.ino = ino, !.len = len,
                               !.id = nops + 1,
                               !.pc = IF op = "read" THEN "resolve"
                                      ELSE IF op = "write" /\ len = 0
                                      THEN "idle"
                                      ELSE "lock"]]
    /\ UNCHANGED << gb, i_mutex, mapped, lpage, lcur, ltail, lfree, lblk >>
    /\ UNCHANGED << jvars, wvars, rvars, pvars >>

\* Thread t enters nova_dax_file_write (len bytes), nova_dax_fault or
\* nova_dax_file_read on inode ino.  The write returns 0 for len == 0 and
\* -EACCES if (mapping_mapped(mapping)), before it takes any lock; a page
\* fault happens on a mapped file.
Enter(t, op, ino, len) ==
    /\ th[t].pc = "idle"
    /\ nops < MaxOps
    /\ nops' = nops + 1
    /\ op = "fault" => mapped[ino]
    /\ th' = [th EXCEPT ![t] =
                [ThIdle EXCEPT !.op = op, !.ino = ino, !.len = len,
                               !.id = nops + 1,
                               !.ret = IF op = "write" /\ len # 0 /\ mapped[ino]
                                       THEN 0 - EACCES ELSE 0,
                               !.pc = IF op = "read" THEN "resolve"
                                      ELSE IF op = "write" /\ (len = 0 \/ mapped[ino])
                                      THEN "idle"
                                      ELSE "lock"]]
    /\ UNCHANGED << gb, i_mutex, mapped, lpage, lcur, ltail, lfree, lblk >>
    /\ UNCHANGED << jvars, wvars, rvars, pvars >>

\* A lock that is taken whoever holds it.
MutexLock_NoWait(t) ==
    /\ th[t].pc = "lock"
    /\ i_mutex' = [i_mutex EXCEPT ![th[t].ino] = t]
    /\ th' = [th EXCEPT ![t].pc = "alloc"]
    /\ UNCHANGED << gb, mapped, lpage, lcur, ltail, lfree, lblk, nops >>
    /\ UNCHANGED << jvars, wvars, rvars, pvars >>

\* One lock for all inodes.
MutexLock_Global(t) ==
    /\ th[t].pc = "lock"
    /\ \A i \in Inodes : i_mutex[i] = 0
    /\ i_mutex' = [i_mutex EXCEPT ![th[t].ino] = t]
    /\ th' = [th EXCEPT ![t].pc = "alloc"]
    /\ UNCHANGED << gb, mapped, lpage, lcur, ltail, lfree, lblk, nops >>
    /\ UNCHANGED << jvars, wvars, rvars, pvars >>

\* mutex_lock(&inode->i_mutex).
MutexLock(t) ==
    /\ th[t].pc = "lock"
    /\ i_mutex[th[t].ino] = 0
    /\ i_mutex' = [i_mutex EXCEPT ![th[t].ino] = t]
    /\ th' = [th EXCEPT ![t].pc = "alloc"]
    /\ UNCHANGED << gb, mapped, lpage, lcur, ltail, lfree, lblk, nops >>
    /\ UNCHANGED << jvars, wvars, rvars, pvars >>

\* temp_tail = pi->log_tail and nova_new_data_blocks of the write, or the
\* lookup and the allocation of nova_dax_get_blocks: block b, or no block
\* (b = 0).  A fault that finds the page mapped allocates nothing; a
\* fault's block is zeroed.
ThreadAlloc(t, b) ==
    /\ th[t].pc = "alloc"
    /\ IF th[t].op = "fault" /\ lpage[th[t].ino] # 0
       THEN /\ b = 0
            /\ th' = [th EXCEPT ![t].pc = "unlock",
                                ![t].nvmm = lpage[th[t].ino]]
            /\ UNCHANGED << lfree, lblk >>
       ELSE IF b = 0
       THEN /\ th' = [th EXCEPT ![t].pc = "unlock", ![t].ret = 0 - ENOSPC]
            /\ UNCHANGED << lfree, lblk >>
       ELSE /\ b \in lfree
            /\ lfree' = lfree \ {b}
            /\ lblk' = IF th[t].op = "fault" THEN [lblk EXCEPT ![b] = 0]
                       ELSE lblk
            /\ th' = [th EXCEPT ![t].blocknr = b,
                                ![t].temp_tail = ltail[th[t].ino],
                                ![t].pc = IF th[t].op = "fault" THEN "append"
                                          ELSE "copy"]
    /\ UNCHANGED << gb, i_mutex, mapped, lpage, lcur, ltail, nops >>
    /\ UNCHANGED << jvars, wvars, rvars, pvars >>

\* memcpy_to_pmem_nocache of the payload and nova_update_cow_csum.
ThreadCopy(t) ==
    /\ th[t].pc = "copy"
    /\ lblk' = [lblk EXCEPT ![th[t].blocknr] = th[t].id]
    /\ th' = [th EXCEPT ![t].pc = "append"]
    /\ UNCHANGED << gb, i_mutex, mapped, lpage, lcur, ltail, lfree, nops >>
    /\ UNCHANGED << jvars, wvars, rvars, pvars >>

\* nova_append_file_write_entry at temp_tail, which then moves past the
\* entry; or its failure (-ENOSPC), after which the cleanup of a fault
\* frees the block, while that of a write does not run (ret is a size_t).
ThreadAppend(t, ok) ==
    /\ th[t].pc = "append"
    /\ IF ok
       THEN /\ lcur' = [lcur EXCEPT ![th[t].ino] = th[t].temp_tail + 1]
            /\ th' = [th EXCEPT ![t].pc = "publish",
                                ![t].temp_tail = @ + 1]
            /\ UNCHANGED lfree
       ELSE /\ th' = [th EXCEPT ![t].pc = "unlock", ![t].ret = 0 - ENOSPC]
            /\ lfree' = IF th[t].op = "fault"
                        THEN lfree \cup {th[t].blocknr} ELSE lfree
            /\ UNCHANGED lcur
    /\ UNCHANGED << gb, i_mutex, mapped, lpage, ltail, lblk, nops >>
    /\ UNCHANGED << jvars, wvars, rvars, pvars >>

\* nova_assign_write_entry(.., true) of a one-page entry: the free set once
\* the block the page was mapped to (old, 0 for a hole) is released.
nova_free_old_entry(fr, old) ==
    IF old = 0 THEN fr ELSE fr \cup {old}

\* nova_update_tail, then nova_reassign_file_tree: the page is mapped to
\* the new block and the block it was mapped to is freed.
ThreadPublish(t) ==
    /\ th[t].pc = "publish"
    /\ ltail' = [ltail EXCEPT ![th[t].ino] = th[t].temp_tail]
    /\ lpage' = [lpage EXCEPT ![th[t].ino] = th[t].blocknr]
    /\ lfree' = nova_free_old_entry(lfree, lpage[th[t].ino])
    /\ th' = [th EXCEPT ![t].pc = "unlock", ![t].nvmm = th[t].blocknr,
                        ![t].ret = th[t].len]
    /\ UNCHANGED << gb, i_mutex, mapped, lcur, lblk, nops >>
    /\ UNCHANGED << jvars, wvars, rvars, pvars >>

\* out: mutex_unlock(&inode->i_mutex) and return.
MutexUnlock(t) ==
    /\ th[t].pc = "unlock"
    /\ i_mutex' = [i_mutex EXCEPT ![th[t].ino] = 0]
    /\ th' = [th EXCEPT ![t].pc = "idle"]
    /\ UNCHANGED << gb, mapped, lpage, lcur, ltail, lfree, lblk, nops >>
    /\ UNCHANGED << jvars, wvars, rvars, pvars >>

\* do_dax_mapping_read, no lock held: the entry and block of the page are
\* looked up (a hole is zeros), and later the bytes are copied out of the
\* block.  seen is what the block held when it was looked up.
ThreadRead(t) ==
    /\ \/ /\ th[t].pc = "resolve"
          /\ th' = [th EXCEPT
                      ![t].nvmm = lpage[th[t].ino],
                      ![t].seen = IF lpage[th[t].ino] = 0 THEN 0
                                  ELSE lblk[lpage[th[t].ino]],
                      ![t].pc = IF lpage[th[t].ino] = 0 THEN "idle"
                                ELSE "rdcopy"]
       \/ /\ th[t].pc = "rdcopy"
          /\ th' = [th EXCEPT ![t].data = lblk[th[t].nvmm],
                              ![t].ret = 1,
                              ![t].pc = "idle"]
    /\ UNCHANGED << gb, i_mutex, mapped, lpage, lcur, ltail, lfree, lblk, nops >>
    /\ UNCHANGED << jvars, wvars, rvars, pvars >>

\* mmap of the file (nova_dax_file_mmap takes no lock), or the unmap of
\* its last mapping.
Mmap(ino, on) ==
    /\ mapped[ino] # on
    /\ nops < MaxOps
    /\ nops' = nops + 1
    /\ mapped' = [mapped EXCEPT ![ino] = on]
    /\ UNCHANGED << gb, th, i_mutex, lpage, lcur, ltail, lfree, lblk >>
    /\ UNCHANGED << jvars, wvars, rvars, pvars >>

LNext ==
    \/ \E t \in 1 .. NThreads, op \in {"write", "fault", "read"}, ino \in Inodes, len \in 0 .. 1 :
          Enter(t, op, ino, len)
    \/ \E t \in 1 .. NThreads : MutexLock(t)
    \/ \E t \in 1 .. NThreads, b \in 0 .. NLBlocks : ThreadAlloc(t, b)
    \/ \E t \in 1 .. NThreads : ThreadCopy(t)
    \/ \E t \in 1 .. NThreads, ok \in BOOLEAN : ThreadAppend(t, ok)
    \/ \E t \in 1 .. NThreads : ThreadPublish(t)
    \/ \E t \in 1 .. NThreads : MutexUnlock(t)
    \/ \E t \in 1 .. NThreads : ThreadRead(t)
    \/ \E ino \in Inodes, on \in BOOLEAN : Mmap(ino, on)

(***************************************************************************)
(* Parity (parity.c): nova_restore_data                                    *)
(*                                                                         *)
(* A block is NStrps stripes of StrpSize bytes, a byte is one bit.  The    *)
(* block was written with its parity stripe and two copies of each         *)
(* stripe's checksum; media errors then damage stripes, the parity or a    *)
(* checksum copy, and nova_restore_data is called for one stripe.          *)
(***************************************************************************)

\* sb->s_blocksize >> NOVA_STRIPE_SHIFT and NOVA_STRIPE_SIZE, scaled down.
NStrps == 3
StrpSize == 2
Strps == 0 .. (NStrps - 1)
StrpIdx == 0 .. (StrpSize - 1)
Stripes == [StrpIdx -> 0 .. 1]

\* Media errors on the block in one behaviour.
MaxDamage == 2

\* nova_calculate_block_parity: parity[i] = xor over the stripes of byte i,
\* starting from stripe 0.
nova_calculate_block_parity(block) ==
    LET RECURSIVE xor(_, _)
        xor(i, strp) == IF strp = 0 THEN block[0][i]
                        ELSE (xor(i, strp - 1) + block[strp][i]) % 2
    IN [i \in StrpIdx |-> xor(i, NStrps - 1)]

\* nova_crc32c(NOVA_INIT_CSUM, stripe, strp_size).
StripeCsum(stripe) ==
    nova_calc_data_csum(NOVA_INIT_CSUM, [i \in 1 .. StrpSize |-> stripe[i - 1]])

\* No update call has returned.
NoUpdate == [pc |-> "idle", fn |-> "none", block |-> << >>, offset |-> 0,
             bytes |-> 0, zero |-> FALSE, data_csum |-> FALSE,
             data_parity |-> FALSE, xmm4_2 |-> FALSE, env |-> "ok",
             oops |-> FALSE, parity |-> << >>, cs |-> << >>]

\* The block as written: its parity and both copies of the checksums (the
\* state nova_update_block_csum_parity leaves).
PInit(blocks) ==
    /\ porig \in blocks
    /\ pblk = porig
    /\ pparity = nova_calculate_block_parity(porig)
    /\ pcsum = [c \in 0 .. 1 |-> [i \in Strps |-> StripeCsum(porig[i])]]
    /\ pres = [pc |-> "idle", id |-> 0, env |-> "ok", ret |-> 0,
               before |-> porig]
    /\ pupd = NoUpdate
    /\ ndmg = 0

\* A buffer that keeps the bad stripe where the parity belongs.
RestoreBuf_NoParity(block, parity, bad_strp_id) == block

\* blockbuf: the block with the parity in place of the bad stripe.
RestoreBuf(block, parity, bad_strp_id) ==
    [i \in Strps |-> IF i = bad_strp_id THEN parity ELSE block[i]]

\* A comparison that takes any candidate.
CsumMatch_Any(csum_calc, csum_nvmm, csum_nvmm1) == TRUE

\* match = (csum_calc == csum_nvmm) || (csum_calc == csum_nvmm1).
CsumMatch(csum_calc, csum_nvmm, csum_nvmm1) ==
    csum_calc = csum_nvmm \/ csum_calc = csum_nvmm1

\* nova_restore_data(sb, blocknr, bad_strp_id): the block after the call
\* and what it returns.  env tells whether kmalloc gave the two buffers,
\* nova_get_parity_addr gave the parity and memcpy_from_pmem read the
\* stripes (its negative result is returned as it is; -EIO here).
nova_restore_data(block, parity, cs, bad_strp_id, env) ==
    LET stripe == nova_calculate_block_parity(
                      RestoreBuf(block, parity, bad_strp_id))
        match == CsumMatch(StripeCsum(stripe), cs[0][bad_strp_id],
                           cs[1][bad_strp_id])
    IN IF env = "nomem" THEN [blk |-> block, ret |-> 0 - ENOMEM]
       ELSE IF env = "noparity" THEN [blk |-> block, ret |-> 0 - EIO]
       ELSE IF env = "mce" THEN [blk |-> block, ret |-> 0 - EIO]
       ELSE IF match
       THEN [blk |-> [block EXCEPT ![bad_strp_id] = stripe], ret |-> 0]
       ELSE [blk |-> block, ret |-> 0 - EIO]

\* A call of nova_restore_data, from entry to return.
Restore(bad_strp_id, env) ==
    /\ pres.pc = "idle"
    /\ LET res == nova_restore_data(pblk, pparity, pcsum, bad_strp_id, env)
       IN /\ pblk' = res.blk
          /\ pres' = [pc |-> "done", id |-> bad_strp_id, env |-> env,
                      ret |-> res.ret, before |-> pblk]
    /\ pupd.pc = "idle"
    /\ UNCHANGED << pparity, pcsum, porig, pupd, ndmg >>
    /\ UNCHANGED << jvars, wvars, rvars, cvars >>

\* A media error: stripe i of the block, the parity stripe (i = NStrps) or
\* copy i - NStrps - 1 of the checksum of stripe k takes another value.
Damage(i, v, k) ==
    /\ pres.pc = "idle"
    /\ ndmg < MaxDamage
    /\ ndmg' = ndmg + 1
    /\ IF i \in Strps
       THEN /\ v # pblk[i]
            /\ pblk' = [pblk EXCEPT ![i] = v]
            /\ UNCHANGED << pparity, pcsum >>
       ELSE IF i = NStrps
       THEN /\ v # pparity
            /\ pparity' = v
            /\ UNCHANGED << pblk, pcsum >>
       ELSE /\ pcsum[i - NStrps - 1][k] # 0
            /\ pcsum' = [pcsum EXCEPT ![i - NStrps - 1][k] = 0]
            /\ UNCHANGED << pblk, pparity >>
    /\ pupd.pc = "idle"
    /\ UNCHANGED << porig, pres, pupd >>
    /\ UNCHANGED << jvars, wvars, rvars, cvars >>

\* A parity that leaves the last stripe out.
nova_update_block_parity_Short(parity, block, zero, env) ==
    IF env # "ok" THEN parity
    ELSE IF zero THEN [i \in StrpIdx |-> 0]
    ELSE nova_calculate_block_parity([block EXCEPT ![NStrps - 1] = [i \in StrpIdx |-> 0]])

\* nova_update_block_parity(sb, block, blocknr, zero): the parity stripe of
\* the block in PM after the call.  env tells whether kmalloc gave the
\* buffer ("nomem") and whether block is NULL ("null"); the call returns 0
\* in every case.
nova_update_block_parity(parity, block, zero, env) ==
    IF env # "ok" THEN parity
    ELSE IF zero THEN [i \in StrpIdx |-> 0]
    ELSE nova_calculate_block_parity(block)

\* nova_update_block_csum(sb, sih, block, blocknr, offset, bytes, 0): both
\* copies of the checksum of every stripe that [offset, offset + bytes)
\* touches, computed from the buffer at `block'.
nova_update_block_csum(cs, block, offset, bytes) ==
    LET strp_index == offset \div StrpSize
        num_strps == (((offset % StrpSize) + bytes - 1) \div StrpSize) + 1
    IN [c \in 0 .. 1 |->
          [k \in Strps |->
              IF k >= strp_index /\ k < strp_index + num_strps
              THEN StripeCsum(block[k]) ELSE cs[c][k]]]

\* nova_update_block_csum_parity(sb, sih, block, blocknr, offset, bytes):
\* parity, checksum copies and whether the call died on a NULL pointer.
\* The block has NStrps stripes where the source has 8; data_csum and
\* data_parity are the module parameters, xmm4_2 the CPU feature, and
\* beyond is the stripe of memory that follows the block buffer.
nova_update_block_csum_parity(parity, cs, block, offset, bytes, data_csum, data_parity, xmm4_2, env, beyond) ==
    LET num_strps == (((offset % StrpSize) + bytes - 1) \div StrpSize) + 1
        unroll_parity == num_strps = NStrps
        unroll_csum == unroll_parity /\ xmm4_2
        \* crc[k] of the unrolled loop, stored to both copies
        cs1 == IF data_csum /\ unroll_csum
               THEN [c \in 0 .. 1 |-> [k \in Strps |-> StripeCsum(block[k])]]
               ELSE cs
        \* block += 8 in each of the strp_size / 8 rounds of the loop
        moved == [k \in Strps |->
                     IF k + 1 \in Strps THEN block[k + 1] ELSE beyond]
        cs2 == IF data_csum /\ ~ unroll_csum
               THEN nova_update_block_csum(cs1, moved, offset, bytes)
               ELSE cs1
    IN IF unroll_parity
       THEN IF data_parity /\ env = "nomem"
            THEN [parity |-> parity, cs |-> cs, oops |-> FALSE]
            ELSE IF ~ data_parity
            THEN \* memcpy_to_pmem_nocache(nvmmptr, parity, ..), parity NULL
                 [parity |-> parity, cs |-> cs1, oops |-> TRUE]
            ELSE [parity |-> nova_calculate_block_parity(block),
                  cs |-> cs2, oops |-> FALSE]
       ELSE [parity |-> IF data_parity
                        THEN nova_update_block_parity(parity, block, FALSE,
                                                      env)
                        ELSE parity,
             cs |-> IF data_csum
                    THEN nova_update_block_csum(cs, block, offset, bytes)
                    ELSE cs,
             oops |-> FALSE]

\* A call of nova_update_block_parity for the block.
UpdateParity(block, zero, env) ==
    /\ pres.pc = "idle" /\ pupd.pc = "idle" /\ ndmg = 0
    /\ pparity' = nova_update_block_parity(pparity, block, zero, env)
    /\ pupd' = [NoUpdate EXCEPT !.pc = "done", !.fn = "parity",
                                !.block = block, !.zero = zero, !.env = env,
                                !.parity = pparity, !.cs = pcsum]
    /\ UNCHANGED << pblk, pcsum, porig, pres, ndmg >>
    /\ UNCHANGED << jvars, wvars, rvars, cvars >>

\* A call of nova_update_block_csum_parity for the block.
UpdateCsumParity(block, offset, bytes, data_csum, data_parity, xmm4_2, env, beyond) ==
    /\ pres.pc = "idle" /\ pupd.pc = "idle" /\ ndmg = 0
    /\ LET res == nova_update_block_csum_parity(pparity, pcsum, block, offset,
                      bytes, data_csum, data_parity, xmm4_2, env, beyond)
       IN /\ pparity' = res.parity
          /\ pcsum' = res.cs
          /\ pupd' = [NoUpdate EXCEPT !.pc = "done", !.fn = "csum_parity",
                                      !.block = block, !.offset = offset,
                                      !.bytes = bytes,
                                      !.data_csum = data_csum,
                                      !.data_parity = data_parity,
                                      !.xmm4_2 = xmm4_2, !.env = env,
                                      !.oops = res.oops,
                                      !.parity = pparity, !.cs = pcsum]
    /\ UNCHANGED << pblk, porig, pres, ndmg >>
    /\ UNCHANGED << jvars, wvars, rvars, cvars >>

\* The update calls are for the whole block or for its middle stripe.
PNext ==
    \/ /\ pupd.pc = "idle" /\ pres.pc = "idle" /\ ndmg = 0
       /\ \E block \in [Strps -> Stripes], zero \in BOOLEAN, env \in {"ok", "nomem", "null"} :
             UpdateParity(block, zero, env)
    \/ /\ pupd.pc = "idle" /\ pres.pc = "idle" /\ ndmg = 0
       /\ \E block \in [Strps -> Stripes], r \in {<< 0, NStrps * StrpSize >>, << StrpSize, StrpSize >>}, f \in [1 .. 3 -> BOOLEAN], env \in {"ok", "nomem"}, beyond \in Stripes :
             UpdateCsumParity(block, r[1], r[2], f[1], f[2], f[3], env, beyond)
    \/ \E i \in 0 .. (NStrps + 2), v \in Stripes, k \in Strps : Damage(i, v, k)
    \/ \E id \in Strps, env \in {"ok", "nomem", "noparity", "mce"} : Restore(id, env)

(***************************************************************************)
(* Specifications: the journal, and the write path                         *)
(***************************************************************************)

JournalInit == JInit /\ WInit /\ RInit /\ gb = NoGetBlocks /\ LInit /\ PInit({[i \in Strps |-> [k \in StrpIdx |-> 0]]})

JSpec == JournalInit /\ [][JNext]_vars

Init == JInit /\ replica_inode = 0 /\ WInit /\ RInit /\ gb = NoGetBlocks /\ LInit /\ PInit({[i \in Strps |-> [k \in StrpIdx |-> 0]]})

\* The file written, read and damaged.
RSpec == Init /\ [][RNext]_vars

\* One block, written with any content, then damaged and restored.
ParityInit ==
    JInit /\ replica_inode = 0 /\ WInit /\ RInit /\ gb = NoGetBlocks /\ LInit /\ PInit([Strps -> Stripes])

PSpec == ParityInit /\ [][PNext]_vars

Spec == Init /\ [][WNext]_vars

\* The steps of a write call that has taken i_mutex; the thread that runs
\* the call is scheduled again and again.
WriteStep ==
    \/ \E a \in {0, 0 - ENOSPC} : AllocFail(a)
    \/ \E b \in Blocks, n \in 1 .. NBlocks : Alloc(b, n)
    \/ Fill
    \/ \E c \in 0 .. (NPages * BlockSize) : Copy(c)
    \/ \E ok \in BOOLEAN : AppendEntry(ok)
    \/ Publish
    \/ Reassign

\* Write calls of up to NPages pages, one after the other.
TNext ==
    \/ \E pos \in 0 .. (NPages * BlockSize - 1), ok \in BOOLEAN :
          \E len \in 0 .. (NPages * BlockSize - pos) :
             /\ nwrites < RWrites
             /\ WriteBegin(pos, len, ok)
    \/ WriteStep

FairSpec == Init /\ [][TNext]_vars /\ WF_vars(WriteStep)

\* The file written and its pages faulted in.
GSpec == Init /\ [][GNext]_vars

\* Threads on two files.
LSpec == Init /\ [][LNext]_vars

\* The hardware writes the cache line of journal slot a back to PM while the
\* system runs, as it may do with any dirty line at any time.
CacheWriteBack(a) ==
    /\ mode = "run"
    /\ jent[a] # jentPM[a]
    /\ jentPM' = [jentPM EXCEPT ![a] = jent[a]]
    /\ UNCHANGED << replica_inode, mode, pair, jent, mem, junres, jpc, jtemp,
                    jtx, jopen, marker, jmut, mnt, hist, ntx, ncrash >>
    /\ UNCHANGED << wvars, rvars, pvars, cvars >>

\* Transactions on all CPUs at once: every CPU creates and commits on its
\* own journal with no regard for the others, so that a crash can catch
\* several journals open.  The transactions are inode transactions on the
\* inodes 1 and 2 and the data they protect is left alone.
CNext ==
    \/ \E c \in Cpus : \E ev \in SUBSET Unsure(c) :
          nova_create_inode_transaction(c, 1, 2, ev)
    \/ \E c \in Cpus : CreateEnd(c)
    \/ \E c \in Cpus : nova_commit_lite_transaction(c, marker[c])
    \/ \E a \in AllSlots : CacheWriteBack(a)
    \/ Crash
    \/ \E ok \in BOOLEAN : SoftInitAlloc(ok)
    \/ \E ev \in SUBSET junres : SoftInitLoop(ev)
    \/ RecoverUndo
    \/ RecoverFinish
    \/ \E g \in {0, EINVAL} : SoftInitReturn(g)

CSpec == JournalInit /\ [][CNext]_vars

(***************************************************************************)
(* Properties of the lite journal (under JSpec)                            *)
(***************************************************************************)

\* The persisted range of CPU c's journal.
PersistedRange(c) == JRange(pair[c].head, pair[c].tail)

\* C4: after a crash during transaction creation or commit, every entry in
\* the persisted range [head, tail) of every journal is in PM as it was
\* written, with a valid checksum: the tail is never durable ahead of an
\* entry it covers.
C4_PersistedRangeWritten ==
    mode = "mount" =>
        \A c \in Cpus : \A a \in SeqSet(PersistedRange(c)) :
            /\ jentPM[a] = jent[a]
            /\ nova_check_entry_integrity(jentPM[a]) = 0

\* C5: when the mount has recovered the journal of a CPU on which a crash
\* caught a created, uncommitted transaction, every journalled inode's
\* primary copy holds its mirrored copy and the journalled field holds the
\* value it had when the transaction was created.
C5_RecoveryUndoes ==
    \A c \in Cpus :
        (mode = "mount" /\ hist[c].recovered) =>
            \A k \in 1 .. Len(hist[c].tx) :
                LET item == hist[c].tx[k]
                IN IF item.kind = "inode"
                   THEN mem[PiAddr(item.ino)] = mem[AlterAddr(item.ino)]
                   ELSE mem[FieldAddr] = item.old

\* C6: a recovery scan of a journal whose transaction was created and not
\* yet committed when the crash came replays all of the transaction's
\* entries.
C6_UncommittedReplayed ==
    \A c \in Cpus :
        (mode = "mount" /\ hist[c].tx # << >> /\ hist[c].checked
            /\ ~(mnt.pc = "undo" /\ mnt.i = c)) =>
                hist[c].replayed = hist[c].range

\* C7: a create call on a CPU whose journal has head # tail ends in BUG()
\* and stores nothing: no journal entry and no ptr_pair changes.
C7_CreateOnOpenJournalIsFatal ==
    [][\A c \in Cpus :
          (ntx' = ntx + 1 /\ jpc[c] = "idle" /\ jpc'[c] # "idle"
              /\ pair[c].head # pair[c].tail) =>
                 /\ jpc'[c] = "bug"
                 /\ mode' = "panic"
                 /\ jent' = jent
                 /\ jentPM' = jentPM
                 /\ pair' = pair]_vars

C7_Witness ==
    \E c \in Cpus :
        /\ mode = "panic"
        /\ jpc[c] = "bug"
        /\ jopen[c]
        /\ pair[c].head # pair[c].tail
        /\ PersistedRange(c) = JRange(pair[c].head, marker[c])
        /\ \A a \in SeqSet(PersistedRange(c)) :
              nova_check_entry_integrity(jent[a]) = 0

\* C8: in a mount, entries of a journal are replayed only if every entry of
\* [head, tail) verified; when one does not, soft_init is about to return
\* -EINVAL with nothing of that journal replayed and its head and tail as
\* the crash left them, and the mount fails.
C8_CheckBeforeUndo ==
    /\ \A c \in Cpus :
          (mode = "mount" /\ hist[c].checked) =>
             IF \E a \in SeqSet(hist[c].range) :
                    nova_check_entry_integrity(jent[a]) # 0
             THEN /\ mnt.pc = "done"
                  /\ mnt.i = c
                  /\ mnt.ret = EINVAL
                  /\ hist[c].replayed = << >>
                  /\ ~hist[c].recovered
                  /\ pair[c] = hist[c].pair0
             ELSE mnt.pc = "done" => mnt.i # c
    /\ \A c \in Cpus :
          (mode = "mount" /\ hist[c].replayed # << >>) => hist[c].checked
    /\ (mode = "run" /\ ncrash > 0) => mnt.ret = 0

C8_Witness ==
    /\ mode = "mount"
    /\ mnt.pc = "done"
    /\ mnt.ret = EINVAL
    /\ mnt.i \in Cpus
    /\ hist[mnt.i].checked
    /\ Len(hist[mnt.i].range) >= 2
    /\ nova_check_entry_integrity(jent[hist[mnt.i].range[1]]) = 0
    /\ nova_check_entry_integrity(jent[hist[mnt.i].range[2]]) # 0

\* C9: when recovery of a journal completes, memory is what one replay of
\* that journal's range from the crash's memory gives, however often a
\* crash interrupted and restarted the recovery, and one more replay
\* changes nothing.
C9_UndoIdempotent ==
    \A c \in Cpus :
        (mode = "mount" /\ mnt.pc = "loop" /\ mnt.i = c + 1
            /\ hist[c].recovered) =>
              /\ mem = UndoRange(hist[c].mem0, jent, hist[c].pair0.head,
                                 hist[c].pair0.tail)
              /\ mem = UndoRange(mem, jent, hist[c].pair0.head,
                                 hist[c].pair0.tail)

C9_Witness ==
    \E c \in Cpus :
        /\ mode = "mount"
        /\ mnt.pc = "loop"
        /\ mnt.i = c + 1
        /\ hist[c].recovered
        /\ hist[c].interrupted > 0
        /\ Len(hist[c].range) >= 3
        /\ mem # hist[c].mem0
        /\ mem[FieldAddr] # hist[c].mem0[FieldAddr]

\* C10: once recovery of a CPU's journal has completed, its tail equals its
\* head and the head is where it was before recovery, and a create call on
\* that CPU passes the opening guard; so does a create call on a CPU with
\* no open transaction after a mount that succeeded.
C10_RecoveryResetsTail ==
    /\ \A c \in Cpus :
          (mode = "mount" /\ hist[c].recovered) =>
             /\ pair[c].tail = pair[c].head
             /\ pair[c].head = hist[c].pair0.head
             /\ ~CreateGuardFails(c)
    /\ \A c \in Cpus :
          (mode = "run" /\ ncrash > 0 /\ jpc[c] = "idle" /\ ~jopen[c]) =>
             ~CreateGuardFails(c)

C10_Witness ==
    \E c \in Cpus :
        /\ mode = "mount"
        /\ hist[c].recovered
        /\ hist[c].pair0.head # hist[c].pair0.tail
        /\ hist[c].replayed = hist[c].range
        /\ pair[c].tail = hist[c].pair0.head

(***************************************************************************)
(* Properties of the write path (under Spec)                               *)
(***************************************************************************)

\* The bytes of page pg as the entry in slot s maps them.
PageBytes(s, pg) == blk[get_nvmm(wlog[s], pg)]

\* C1: at every point at which a crash may come, the content reachable from
\* the persisted log tail is the content as of the last publication, each
\* published page holds its own write's payload where that write wrote and
\* older content elsewhere, and what a mount after a crash shows is that
\* content.
C1_CrashShowsLastPublished ==
    /\ ContentAt(wlog, log_tail, blk) = committed
    /\ LET t == Rebuild(EmptyTree, wlog, 1, log_tail)
       IN \A pg \in Pages : t[pg] # 0 =>
             \A k \in ByteIdx :
                LET e == wlog[t[pg]]
                    at == pg * BlockSize + k
                IN IF at >= e.from /\ at < e.upto
                   THEN PageBytes(t[pg], pg)[k] = e.id
                   ELSE PageBytes(t[pg], pg)[k] < e.id
    /\ w.pc = "mounted" => FileContent(tree, wlog, blk, i_size) = committed

C1_Witness ==
    /\ w.pc = "mounted"
    /\ log_tail = 2
    /\ committed.size > 0
    /\ wlog[2].id > wlog[1].id
    /\ wlog[2].upto > wlog[2].from
    /\ \E k \in ByteIdx : blk[wlog[2].block][k] = wlog[2].id

\* C2 as stated: pi->log_tail keeps its pre-call value during the
\* iterations of a call and is advanced only after the loop has completed
\* successfully.
C2_TailOnlyAfterCompleteLoop ==
    /\ [](w.pc \in {"alloc", "fill", "copy", "append"} =>
             log_tail = w.tail0)
    /\ [][log_tail' # log_tail =>
             (w.pc = "publish" /\ w.status >= 0 /\ w.num_blocks = 0)]_vars

\* C2, amended: pi->log_tail keeps its pre-call value during the iterations
\* of a call and is advanced by one update after the loop has ended,
\* completed or cut short by a short copy, to include exactly the entries
\* of the iterations whose payload was copied in full; a crash leaves it
\* unchanged.
C2_TailAfterLoopEnded ==
    /\ [](w.pc \in {"alloc", "fill", "copy", "append", "publish"} =>
             log_tail = w.tail0)
    /\ [][log_tail' # log_tail =>
             /\ w.pc = "publish"
             /\ w'.pc = "reassign"
             /\ log_tail' = w.temp_tail
             /\ w.done = [k \in 1 .. (log_tail' - log_tail) |->
                             log_tail + k - 1]
             /\ \A k \in 1 .. Len(w.done) :
                   /\ wlog[w.done[k]].id = w.id
                   /\ wlog[w.done[k]].upto - wlog[w.done[k]].from > 0]_vars
    /\ [][wcrash' # wcrash => log_tail' = log_tail]_vars

C2_Witness ==
    /\ w.pc = "reassign"
    /\ w.status < 0
    /\ Len(w.done) >= 1
    /\ log_tail = w.tail0 + Len(w.done)
    /\ wlog[log_tail].id = w.id

\* C3: every data store of a write call goes to a block of the extent the
\* call got from the allocator for the iteration at hand, and no such block
\* holds content reachable from the published log tail.
C3_StoresOnlyToNewBlocks ==
    /\ [](w.pc \in {"fill", "copy", "append"} =>
             /\ RunBlocks(w.blocknr, w.allocated) \subseteq w.got
             /\ w.got \cap LiveBlocks(wlog, log_tail) = {}
             /\ w.got \cap free = {})
    /\ [][\A x \in Blocks : blk'[x] # blk[x] =>
             /\ w.pc \in {"fill", "copy"}
             /\ x \in RunBlocks(w.blocknr, w.allocated)
             /\ x \in w.got
             /\ x \notin LiveBlocks(wlog, log_tail)]_vars

C3_Witness ==
    /\ w.pc = "append"
    /\ w.copied = w.bytes
    /\ w.pos % BlockSize # 0
    /\ tree[w.pos \div BlockSize] # 0
    /\ wlog[tree[w.pos \div BlockSize]].reassigned = 1
    /\ blk[w.blocknr][0] # w.id
    /\ blk[w.blocknr][0] # 0
    /\ blk[w.blocknr][1] = w.id

(***************************************************************************)
(* Independence of the per-CPU journals                                    *)
(***************************************************************************)

\* The journal of CPU c holds a transaction that PM surely holds in full:
\* head # tail and every entry of the range is written back and passes its
\* checksum.
ValidOpenJournal(c) ==
    /\ pair[c].head # pair[c].tail
    /\ \A a \in SeqSet(PersistedRange(c)) :
          /\ a \notin junres
          /\ jentPM[a] = jent[a]
          /\ nova_check_entry_integrity(jent[a]) = 0

\* C11: per-CPU journals are recovered independently: when the loop of
\* nova_lite_journal_soft_init has ended (the allocation of the locks having
\* succeeded), no CPU is left with a journal that has head # tail and valid
\* checksums, whatever the state of the other CPUs' journals: each such
\* journal has been replayed and reset.
C11_RecoveredIndependently ==
    (mode = "mount" /\ mnt.pc = "done" /\ mnt.ret # ENOMEM) =>
        \A c \in Cpus : ~ValidOpenJournal(c)

(***************************************************************************)
(* Failure of a write call                                                 *)
(***************************************************************************)

\* The step is the one on which a call of nova_cow_file_write returns.
WriteReturns ==
    /\ w'.pc = "idle"
    /\ w.pc \notin {"idle", "mounted"} \/ nwrites' # nwrites

\* C12: when a write call fails inside its loop (the allocation fails or
\* gives no block, or the log append fails), every block the call got from
\* the allocator is free again when the call returns.
C12_FailedWriteFreesItsBlocks ==
    [][(w.pc \in {"alloc", "append"} /\ w'.pc = "idle") =>
           w.got \subseteq free']_vars

\* C13: when a write call returns a negative error, the published log tail
\* and the file size are what they were before the call; the file size
\* changes only on the last step of a call (or by a remount).
C13_FailedWriteKeepsTailAndSize ==
    /\ [][(WriteReturns /\ wret' < 0) =>
             /\ log_tail' = (IF w.pc \in {"idle", "mounted"} THEN log_tail
                             ELSE w.tail0)
             /\ i_size' = i_size]_vars
    /\ [][i_size' # i_size =>
             (w.pc = "reassign" \/ wcrash' # wcrash)]_vars

\* A call has failed with -ENOSPC after it had appended an entry of its own
\* beyond the published tail.
C13_Witness ==
    /\ w.pc = "idle"
    /\ nwrites > 0
    /\ wret = 0 - ENOSPC
    /\ \E s \in Slots : s >= log_tail /\ wlog[s].id = nwrites

(***************************************************************************)
(* Partial head and tail blocks                                            *)
(***************************************************************************)

\* The byte the file showed at byte k of page pg before the call at hand:
\* the radix tree is not touched before the call's last step.
OldByte(pg, k) ==
    IF tree[pg] = 0 THEN 0 ELSE blk[get_nvmm(wlog[tree[pg]], pg)][k]

\* C14: when the loop of a write has ended, every new block of an iteration
\* that copied its payload in full holds the payload in the written range
\* and, in the bytes before it in the first block and after it in the last
\* block, the bytes of the block mapped at that page before, or zeros where
\* the page was a hole.
C14_HeadTailPreserved ==
    w.pc \in {"publish", "reassign"} =>
        \A n \in 1 .. Len(w.done) :
            LET e == wlog[w.done[n]]
            IN \A pg \in Pages :
                  (pg >= e.pgoff /\ pg < e.pgoff + e.num_pages) =>
                      \A k \in ByteIdx :
                          LET at == pg * BlockSize + k
                          IN blk[get_nvmm(e, pg)][k] =
                                (IF at >= e.from /\ at < e.upto THEN w.id
                                 ELSE OldByte(pg, k))

\* A write that starts inside a page has ended its loop: the page was
\* mapped, and the first byte of the new block is the old block's, stored
\* by an earlier write.
C14_Witness ==
    /\ w.pc = "reassign"
    /\ Len(w.done) >= 1
    /\ LET e == wlog[w.done[1]]
       IN /\ e.from % BlockSize = 1
          /\ tree[e.pgoff] # 0
          /\ blk[e.block][0] = wlog[tree[e.pgoff]].id
          /\ blk[e.block][0] \in 1 .. MaxWrites
          /\ blk[e.block][1] = w.id

(***************************************************************************)
(* Data checksums of the write path                                        *)
(***************************************************************************)

\* The stored checksum of block x is the checksum of its whole content.
BlockVerifies(x) ==
    csum[x] = nova_calc_data_csum(NOVA_INIT_CSUM,
                                  BlockBytes(blk[x], 0, BlockSize))

\* C15: with data checksums on, every block of an extent whose iteration
\* copied its payload in full carries the checksum of its complete content
\* from the end of the iteration on, a partly written head or tail block
\* included, and so does every block the published log maps.
C15_WrittenBlocksVerify ==
    /\ \A n \in 1 .. Len(w.done) :
          \A x \in RunBlocks(wlog[w.done[n]].block,
                             wlog[w.done[n]].num_pages) : BlockVerifies(x)
    /\ \A x \in LiveBlocks(wlog, log_tail) : BlockVerifies(x)

\* A successful write that started inside a mapped page has published its
\* extent: the first block holds an older byte before the payload, and its
\* stored checksum is that of the block, not of a block full of payload.
C15_Witness ==
    /\ w.pc = "reassign"
    /\ w.status >= 0
    /\ Len(w.done) >= 1
    /\ LET e == wlog[w.done[1]]
       IN /\ e.from % BlockSize = 1
          /\ blk[e.block][0] \in 1 .. MaxWrites
          /\ blk[e.block][0] # w.id
          /\ blk[e.block][1] = w.id
          /\ BlockVerifies(e.block)
          /\ csum[e.block] # nova_calc_data_csum(NOVA_INIT_CSUM,
                                                 BufBytes(w.id, BlockSize))

(***************************************************************************)
(* The read path                                                           *)
(***************************************************************************)

\* The byte at file offset `at' as the published log gives it: the byte of
\* the page the most recent entry that covers it maps, zero in a hole.
MappedByte(at) ==
    ContentAt(wlog, log_tail, blk).data[at \div BlockSize][at % BlockSize]

\* C16: a read of an undamaged file gives its caller, for every byte of the
\* range, the byte of the physical page that the most recent log entry
\* covering the page maps, and zero where no entry maps the page; with no
\* fault of the copy it returns the whole range up to the file size.
C16_ReadReturnsMappedBytes ==
    (rd.pc = "done" /\ nbad = 0) =>
        /\ \A i \in 1 .. Len(rd.data) : rd.data[i] = MappedByte(rd.pos + i - 1)
        /\ (rd.ok /\ rd.fault = 0) =>
              /\ Len(rd.data) = rd.ret
              /\ rd.ret = (IF rd.pos >= i_size THEN 0
                           ELSE IF rd.len > i_size - rd.pos
                                THEN i_size - rd.pos ELSE rd.len)

\* A read of the whole file has returned after a later write took the
\* second page from the entry that still maps the first; the first page
\* starts with zeros of a hole fill or an older write's byte.
C16_Witness ==
    /\ rd.pc = "done"
    /\ nbad = 0
    /\ rd.pos = 0
    /\ rd.ret = MaxBytes
    /\ tree[0] # 0 /\ tree[1] # 0 /\ tree[1] # tree[0]
    /\ wlog[tree[0]].reassigned = 1
    /\ wlog[tree[0]].num_pages = 2
    /\ rd.data[MaxBytes] = wlog[tree[1]].id

\* C17: with data checksums on, every block from which a read gave its
\* caller a byte carries the checksum of its content: the blocks of a chunk
\* are verified before the chunk is copied, and a chunk with a bad block is
\* not copied.
C17_NoByteOfBadBlock ==
    rd.pc = "done" => \A x \in rd.srcs : BlockVerifies(x)

\* A read of a damaged file has returned the bytes of the good page before
\* the damaged one and nothing of the damaged one.
C17_Witness ==
    /\ rd.pc = "done"
    /\ nbad = 1
    /\ rd.pos = 0 /\ rd.len = MaxBytes /\ i_size = MaxBytes
    /\ rd.ret = BlockSize
    /\ rd.srcs # {}
    /\ tree[1] # 0
    /\ ~BlockVerifies(get_nvmm(wlog[tree[1]], 1))

\* The pages that hold a byte of the range a read call was asked for, the
\* range cut at the file size.
PagesAsked ==
    LET upto == IF rd.pos + rd.len > i_size THEN i_size
                ELSE rd.pos + rd.len
    IN { pg \in Pages : \E at \in rd.pos .. (upto - 1) :
                           at \div BlockSize = pg }

\* C18: a read call whose range holds a page mapped to a block that fails
\* its checksum returns -EIO, however many bytes it had copied before.
C18_BadBlockIsIOError ==
    (/\ rd.pc = "done" /\ rd.ok /\ rd.fault = 0
     /\ \E pg \in PagesAsked :
           tree[pg] # 0 /\ ~BlockVerifies(get_nvmm(wlog[tree[pg]], pg)))
        => rd.ret = 0 - EIO

\* The stripe that the surviving stripes and the parity give for stripe id of
\* a block.
Reconstructed(block, parity, id) ==
    [i \in StrpIdx |->
        LET RECURSIVE x(_)
            x(j) == IF j = NStrps THEN parity[i]
                    ELSE ((IF j = id THEN 0 ELSE block[j][i]) + x(j + 1)) % 2
        IN x(0)]

\* C19: when nova_restore_data is called for the one corrupted stripe of a
\* block whose other stripes, parity and checksums are as written, and it
\* got its buffers and read the stripes, it returns 0, the bad stripe holds
\* the original bytes again, which are the xor of the surviving stripes and
\* the parity, every other stripe is as it was, and every stripe matches
\* its checksum.
C19_RestoresOriginalStripe ==
    ( /\ pres.pc = "done" /\ pres.env = "ok"
      /\ pres.before[pres.id] # porig[pres.id]
      /\ \A j \in Strps \ {pres.id} : pres.before[j] = porig[j]
      /\ pparity = Reconstructed(porig, porig[pres.id], pres.id)
      /\ \A c \in 0 .. 1, j \in Strps : pcsum[c][j] # 0 ) =>
        /\ pres.ret = 0
        /\ pblk[pres.id] = porig[pres.id]
        /\ pblk[pres.id] = Reconstructed(pres.before, pparity, pres.id)
        /\ \A j \in Strps \ {pres.id} : pblk[j] = pres.before[j]
        /\ \A j \in Strps : StripeCsum(pblk[j]) = pcsum[0][j]

C19_Witness ==
    /\ pres.pc = "done" /\ pres.env = "ok" /\ pres.id = 1 /\ ndmg = 1
    /\ pres.before[1] # porig[1]
    /\ pblk = porig
    /\ porig[0] # porig[2]
    /\ pres.ret = 0

\* C20: nova_restore_data changes the block only by writing the
\* reconstructed stripe over the bad one, and only when the checksum of the
\* reconstructed stripe equals one of the two stored copies; when it equals
\* neither, the call returns an error and the whole block is as it was.
C20_WritesOnlyOnChecksumMatch ==
    pres.pc = "done" =>
        LET cand == Reconstructed(pres.before, pparity, pres.id)
            neither == /\ StripeCsum(cand) # pcsum[0][pres.id]
                       /\ StripeCsum(cand) # pcsum[1][pres.id]
        IN /\ pblk # pres.before =>
                 /\ ~ neither
                 /\ pblk = [pres.before EXCEPT ![pres.id] = cand]
           /\ neither => (pres.ret < 0 /\ pblk = pres.before)

C20_Witness ==
    /\ pres.pc = "done" /\ pres.env = "ok"
    /\ pres.before[pres.id] # porig[pres.id]
    /\ StripeCsum(Reconstructed(pblk, pparity, pres.id))
           \notin {pcsum[0][pres.id], pcsum[1][pres.id]}
    /\ pres.ret = 0 - EIO
    /\ pblk = pres.before

\* C30: when a write call that stored all its bytes is about to return, the
\* entries it appended are one per allocation: their extents are exactly the
\* blocks the allocator gave the call, each as long as its allocation, the
\* first starts at logical block pos / blocksize, each next one where the
\* one before ends, and the last ends at block (pos + len - 1) / blocksize.
C30_OneEntryPerAllocation ==
    (w.pc = "reassign" /\ w.count = 0 /\ w.written > 0) =>
        LET n == Len(w.done)
            e(i) == wlog[w.done[i]]
            first == (w.pos - w.written) \div BlockSize
            last == (w.pos - 1) \div BlockSize
        IN /\ n >= 1
           /\ e(1).pgoff = first
           /\ \A i \in 1 .. (n - 1) :
                 e(i + 1).pgoff = e(i).pgoff + e(i).num_pages
           /\ e(n).pgoff + e(n).num_pages - 1 = last
           /\ \A i \in 1 .. n : e(i).num_pages >= 1 /\ e(i).id = w.id
           /\ UNION { e(i).block .. (e(i).block + e(i).num_pages - 1) :
                        i \in 1 .. n } = w.got
           /\ Cardinality(w.got) = last - first + 1
           /\ (n = 1 => e(1).num_pages = last - first + 1)

C30_Witness ==
    /\ w.pc = "reassign" /\ w.count = 0 /\ w.written = 2
    /\ w.pos = 3
    /\ Len(w.done) = 1
    /\ wlog[w.done[1]].pgoff = 0 /\ wlog[w.done[1]].num_pages = 2

\* C28: after nova_update_block_csum_parity for a whole block, whatever the
\* checksum and parity parameters and the CPU feature are, the call has
\* returned and PM holds what the generic path stores for the buffer: both
\* copies of each stripe's checksum when checksums are on, the xor of the
\* stripes as parity when parity is on, and what was there otherwise.
C28_UnrolledEqualsGeneric ==
    ( /\ pupd.pc = "done" /\ pupd.fn = "csum_parity" /\ pupd.env = "ok"
      /\ pupd.offset = 0 /\ pupd.bytes = NStrps * StrpSize ) =>
        /\ ~ pupd.oops
        /\ pcsum = IF pupd.data_csum
                   THEN nova_update_block_csum(pupd.cs, pupd.block, 0,
                                               NStrps * StrpSize)
                   ELSE pupd.cs
        /\ pparity = IF pupd.data_parity
                     THEN nova_update_block_parity(pupd.parity, pupd.block,
                                                   FALSE, "ok")
                     ELSE pupd.parity

\* C29: after nova_update_block_parity that got its buffer and a block,
\* byte i of the parity stripe in PM is the xor of byte i of every stripe of
\* the block; for a block flagged zero-filled the parity is all zero bytes,
\* whatever the block buffer holds.
C29_ParityIsXorOfStripes ==
    (pupd.pc = "done" /\ pupd.fn = "parity" /\ pupd.env = "ok") =>
        IF pupd.zero
        THEN \A i \in StrpIdx : pparity[i] = 0
        ELSE pparity = Reconstructed(pupd.block, [i \in StrpIdx |-> 0], NStrps)

C29_Witness ==
    /\ pupd.pc = "done" /\ pupd.fn = "parity" /\ pupd.env = "ok"
    /\ ~ pupd.zero
    /\ pparity = [i \in StrpIdx |-> 1]
    /\ pupd.block[0] # pupd.block[1] /\ pupd.block[1] # pupd.block[2]
    /\ pupd.parity # pparity

\* The pages from iblock on that the tree maps, one after the other, to the
\* entry that maps iblock.
Contig(t, iblock) ==
    Cardinality({ n \in 1 .. NPages :
                    \A j \in 0 .. (n - 1) :
                       iblock + j \in Pages /\ t[iblock + j] = t[iblock] })

\* C26 as stated: a call of nova_dax_get_blocks for a block that a write
\* entry maps, or with create = 0, allocates nothing, appends nothing and
\* leaves the tail alone, and it returns the number of contiguous mapped
\* blocks from iblock on, capped by max_blocks (0 when nothing is mapped).
C26_LookupReturnsContiguousCount ==
    (gb.pc = "done" /\ (gb.hit \/ ~ gb.create)) =>
        /\ free = gb.before.fr /\ wlog = gb.before.lg
        /\ log_tail = gb.before.tail /\ tree = gb.before.t
        /\ blk = gb.before.b /\ i_size = gb.before.size
        /\ gb.ret = IF ~ gb.hit THEN 0
                    ELSE IF Contig(tree, gb.iblock) > gb.max_blocks
                    THEN gb.max_blocks
                    ELSE Contig(tree, gb.iblock)

\* C26, amended: such a call changes nothing; when the entry that maps
\* iblock has lost no page to a later entry it returns the number of
\* contiguous mapped blocks from iblock on, capped by max_blocks; when the
\* entry has lost a page it returns one block (none for max_blocks = 0);
\* with nothing mapped and create = 0 it returns 0.
C26_LookupChangesNothing ==
    (gb.pc = "done" /\ (gb.hit \/ ~ gb.create)) =>
        /\ free = gb.before.fr /\ wlog = gb.before.lg
        /\ log_tail = gb.before.tail /\ tree = gb.before.t
        /\ blk = gb.before.b /\ i_size = gb.before.size
        /\ LET e == wlog[tree[gb.iblock]]
               n == IF e.invalid_pages = 0 THEN Contig(tree, gb.iblock) ELSE 1
           IN gb.ret = IF ~ gb.hit THEN 0
                       ELSE IF n > gb.max_blocks THEN gb.max_blocks ELSE n

C26_Witness ==
    /\ gb.pc = "done" /\ gb.hit /\ gb.create
    /\ gb.iblock = 1 /\ gb.max_blocks = 2
    /\ wlog[tree[1]].invalid_pages = 1
    /\ Contig(tree, 1) = 2
    /\ gb.ret = 1
    /\ free = gb.before.fr /\ wlog = gb.before.lg /\ log_tail = gb.before.tail

\* C27: a call of nova_dax_get_blocks never changes the size of the inode,
\* and the entry it publishes when it fills a hole records the size the
\* file had before the fault.
C27_FaultKeepsFileSize ==
    gb.pc = "done" =>
        /\ i_size = gb.before.size
        /\ log_tail # gb.before.tail =>
              /\ log_tail = gb.before.tail + 1
              /\ wlog[gb.before.tail].pgoff = gb.iblock
              /\ wlog[gb.before.tail].size = gb.before.size

C27_Witness ==
    /\ gb.pc = "done" /\ ~ gb.hit /\ gb.create
    /\ gb.iblock = 2 /\ gb.ret = 1
    /\ log_tail = gb.before.tail + 1
    /\ tree[2] = gb.before.tail
    /\ gb.before.size = BlockSize /\ i_size = BlockSize
    /\ wlog[tree[2]].size = BlockSize

\* C21 as stated: every COW write issued to a file that is memory-mapped is
\* rejected with -EACCES before any allocation, copy or append, and leaves
\* the file state unchanged.
C21_MappedWriteRejected ==
    [][\A t \in DOMAIN th :
          (/\ th[t].pc = "idle" /\ nops' = nops + 1 /\ th'[t] # th[t]
           /\ th'[t].op = "write" /\ mapped[th'[t].ino])
          => /\ th'[t].pc = "idle"
             /\ th'[t].ret = 0 - EACCES
             /\ UNCHANGED << i_mutex, mapped, lpage, lcur, ltail, lfree, lblk >>]_vars

\* C21, amended: every COW write of non-zero length issued to a file that is
\* memory-mapped is rejected with -EACCES before any allocation, copy or
\* append, and leaves the file state unchanged; a write of length 0 returns
\* 0, and also leaves the file state unchanged.
C21_NonEmptyMappedWriteRejected ==
    [][\A t \in DOMAIN th :
          (/\ th[t].pc = "idle" /\ nops' = nops + 1 /\ th'[t] # th[t]
           /\ th'[t].op = "write" /\ mapped[th'[t].ino])
          => /\ th'[t].pc = "idle"
             /\ th'[t].ret = (IF th'[t].len # 0 THEN 0 - EACCES ELSE 0)
             /\ UNCHANGED << i_mutex, mapped, lpage, lcur, ltail, lfree, lblk >>]_vars

\* A write of non-zero length was rejected on a file that is mapped and
\* already has data.
C21_Witness ==
    \E t \in DOMAIN th :
       /\ th[t].op = "write" /\ th[t].pc = "idle" /\ th[t].len # 0
       /\ th[t].ret = 0 - EACCES
       /\ mapped[th[t].ino]
       /\ lpage[th[t].ino] # 0

\* C22: no state is reachable in which a COW write is allocating, copying,
\* checksumming or publishing on a file while that file is memory-mapped.
C22_WriteExcludesMapping ==
    \A t \in DOMAIN th :
       (th[t].op = "write" /\ th[t].pc \in {"alloc", "copy", "append", "publish"})
       => ~mapped[th[t].ino]

\* C23: on one inode at most one write or page fault is between its block
\* allocation and its tail publication, that one holds the inode lock, and
\* the log never holds the unpublished entries of two operations.
C23_SerializedByInodeLock ==
    /\ \A t \in DOMAIN th :
          th[t].pc \in {"alloc", "copy", "append", "publish", "unlock"}
          => i_mutex[th[t].ino] = t
    /\ \A t1 \in DOMAIN th, t2 \in DOMAIN th :
          (/\ t1 # t2
           /\ th[t1].pc \in {"copy", "append", "publish"}
           /\ th[t2].pc \in {"copy", "append", "publish"})
          => th[t1].ino # th[t2].ino
    /\ \A ino \in Inodes : lcur[ino] - ltail[ino] \in 0 .. 1

\* A write has appended its entry and not yet published it, while a page
\* fault on the same inode waits for the lock.
C23_Witness ==
    \E t1 \in DOMAIN th, t2 \in DOMAIN th :
       /\ th[t1].op = "write" /\ th[t1].pc = "publish"
       /\ th[t2].op = "fault" /\ th[t2].pc = "lock"
       /\ th[t1].ino = th[t2].ino

\* C24: a write on inode A whose only concurrent operations are on other
\* inodes, one of them a write that holds its inode's lock, can always take
\* its next step, whatever point the other write is at: it never waits for
\* the lock of another inode.
C24_WritersOfDifferentInodesNeverBlock ==
    \A t1 \in DOMAIN th, t2 \in DOMAIN th :
       (/\ t1 # t2
        /\ th[t1].op = "write" /\ th[t1].pc # "idle"
        /\ th[t2].op = "write" /\ i_mutex[th[t2].ino] = t2
        /\ \A t3 \in DOMAIN th \ {t1} :
              th[t3].pc = "idle" \/ th[t3].ino # th[t1].ino)
       => ENABLED (\/ MutexLock(t1)
                   \/ \E b \in 0 .. NLBlocks : ThreadAlloc(t1, b)
                   \/ ThreadCopy(t1)
                   \/ \E ok \in BOOLEAN : ThreadAppend(t1, ok)
                   \/ ThreadPublish(t1)
                   \/ MutexUnlock(t1))

\* A write that was issued after a write on another inode has published its
\* data while the earlier one is still copying under its inode's lock.
C24_Witness ==
    \E t1 \in DOMAIN th, t2 \in DOMAIN th :
       /\ th[t1].op = "write" /\ th[t1].pc = "unlock" /\ th[t1].ret = 1
       /\ th[t2].op = "write" /\ th[t2].pc = "copy"
       /\ i_mutex[th[t2].ino] = t2
       /\ th[t1].ino # th[t2].ino
       /\ th[t2].id < th[t1].id

\* C25: the block a read has resolved is not reclaimed and overwritten
\* before the read's copy from it has finished: while the copy is pending
\* the block is not free and holds what it held when it was resolved, and
\* the bytes a read returns are those of the entry it resolved.
C25_ReadNeverTorn ==
    \A t \in DOMAIN th :
       /\ (th[t].op = "read" /\ th[t].pc = "rdcopy")
          => /\ th[t].nvmm \notin lfree
             /\ lblk[th[t].nvmm] = th[t].seen
       /\ (th[t].op = "read" /\ th[t].pc = "idle" /\ th[t].ret = 1)
          => th[t].data = th[t].seen

\* C31: the tree and the reassigned marks change only in the reassign step
\* of a call, which comes after the tail was published (or at a mount), and
\* that step applies nova_assign_write_entry once to each entry the call
\* appended from begin_tail up to the published tail, in log order, and to
\* no other entry.
C31_ReassignAfterPublishVisitsOwnEntries ==
    [][/\ (tree' # tree /\ wcrash' = wcrash)
          => (w.pc = "reassign" /\ log_tail = w.temp_tail)
       /\ (w.pc = "reassign" /\ w.begin_tail # 0 /\ wcrash' = wcrash)
          => LET RECURSIVE Visit(_, _)
                 Visit(st, k) ==
                     IF k > Len(w.done) THEN st
                     ELSE Visit(nova_assign_write_entry(st, w.done[k], 0),
                                k + 1)
                 st == Visit([t |-> tree, lg |-> wlog, fr |-> free], 1)
             IN /\ w.done = [k \in 1 .. (log_tail - w.begin_tail) |->
                                w.begin_tail + k - 1]
                /\ \A k \in 1 .. Len(w.done) : wlog[w.done[k]].id = w.id
                /\ tree' = st.t
                /\ wlog' = st.lg
                /\ free' = st.fr]_vars

\* A call has returned after its reassign step: the entry it published is
\* in the tree, and the entry of its short copy, which lies at the tail, is
\* not.
C31_Witness ==
    /\ w.pc = "idle" /\ wret > 0
    /\ log_tail \in Slots /\ log_tail > 1
    /\ wlog[log_tail].id = wlog[log_tail - 1].id
    /\ wlog[log_tail].id # 0
    /\ tree[wlog[log_tail - 1].pgoff] = log_tail - 1
    /\ tree[wlog[log_tail].pgoff] # log_tail

\* C32: no block of an entry below the published tail that no later entry
\* has superseded is in the free pool, whatever write or fault has failed
\* and been cleaned up; and every block a release can free is allocated and
\* mapped by one page only, so that no block is freed twice.
C32_PublishedBlocksNotFreed ==
    /\ \A s \in Slots :
          (s < log_tail /\ wlog[s].num_pages > 0 /\ wlog[s].reassigned = 0)
          => RunBlocks(wlog[s].block, wlog[s].num_pages) \cap free = {}
    /\ \A pg \in Pages :
          tree[pg] # 0 => get_nvmm(wlog[tree[pg]], pg) \notin free
    /\ \A p1 \in Pages, p2 \in Pages :
          (p1 # p2 /\ tree[p1] # 0 /\ tree[p2] # 0)
          => get_nvmm(wlog[tree[p1]], p1) # get_nvmm(wlog[tree[p2]], p2)

\* nova_reassign_file_tree has failed after nova_update_tail (the call
\* returned -EINVAL) on a file whose first entry is published and not
\* superseded.
C32_Witness ==
    /\ w.pc = "idle" /\ wret = 0 - EINVAL
    /\ log_tail > 1
    /\ wlog[1].num_pages > 0 /\ wlog[1].reassigned = 0
    /\ wlog[log_tail].num_pages > 0

\* C33: when a write call returns n > 0, each of the n bytes from the
\* position the call started at lies in the byte range of an entry of this
\* call below the published tail, and a file size the call sets is not
\* larger than the size the published log records.
C33_ReturnedBytesArePublished ==
    [][(w.pc = "reassign" /\ w'.pc = "idle" /\ wcrash' = wcrash /\ wret' > 0)
       => LET mine == { s \in Slots : s < log_tail /\ wlog[s].id = w.id }
              start == w.pos - w.written
          IN /\ \A x \in start .. (start + wret' - 1) :
                   \E s \in mine : wlog[s].from <= x /\ x < wlog[s].upto
             /\ i_size' # i_size
                => i_size' <= RecoveredSize(wlog, log_tail)]_vars

\* C34: for the offset (smaller than the block size) and the byte count
\* (greater than zero) of every iteration of a write, nova_update_cow_csum
\* returns 0 and stores one checksum for each block the range
\* [offset, offset + bytes) touches, from blocknr on, each block once; no
\* other checksum changes.
C34_CowCsumCoversRange ==
    [][(w.pc = "append" /\ w.copied > 0 /\ wlog' # wlog /\ wcrash' = wcrash)
       => LET offset == w.pos % BlockSize
              r == CowCsumStores(w.blocknr, offset, w.copied)
              n == (offset + w.copied + BlockSize - 1) \div BlockSize
          IN /\ r.left = 0
             /\ r.stores = [k \in 1 .. n |-> w.blocknr + k - 1]
             /\ \A x \in Blocks :
                   csum'[x] # csum[x]
                   => x \in { r.stores[k] : k \in 1 .. Len(r.stores) }]_vars

\* The checksums were updated for a range that starts inside a block and
\* ends in the next one: the entry of the iteration holds two blocks.
C34_Witness ==
    \E s \in Slots :
       /\ wlog[s].id # 0
       /\ wlog[s].from % BlockSize # 0
       /\ wlog[s].upto > (wlog[s].pgoff + 1) * BlockSize
       /\ wlog[s].num_pages = 2
       /\ csum[wlog[s].block] # 0 /\ csum[wlog[s].block + 1] # 0

\* C35: the published tail of an inode changes only in the publication
\* step of the write or fault that holds the inode's lock, and only to a
\* larger value, whatever calls succeeded or failed before.
C35_TailMovesForwardUnderLock ==
    [][\A ino \in Inodes :
          ltail'[ino] # ltail[ino]
          => /\ ltail'[ino] > ltail[ino]
             /\ i_mutex[ino] \in DOMAIN th
             /\ th[i_mutex[ino]].ino = ino
             /\ th[i_mutex[ino]].pc = "publish"
             /\ ltail'[ino] = th[i_mutex[ino]].temp_tail]_vars

\* The tail of an inode has been published a second time, by a write that
\* still holds the lock, while another thread waits for that lock.
C35_Witness ==
    \E t1 \in DOMAIN th, t2 \in DOMAIN th :
       /\ th[t1].pc = "unlock" /\ th[t1].op = "write" /\ th[t1].ret = 1
       /\ th[t1].temp_tail = 2
       /\ ltail[th[t1].ino] = 2
       /\ th[t2].pc = "lock" /\ th[t2].ino = th[t1].ino

\* C36: once a create call has returned, the journal of its CPU holds the
\* entries of the call, between 2 and 5 of them, from head up to tail in
\* ring order (wrapping to the start of the journal page at its end), and
\* tail # head: the range never wraps onto head.
C36_CreateLeavesTwoToFiveEntries ==
    \A c \in Cpus :
       (mode = "run" /\ jopen[c] /\ jpc[c] = "idle")
       => /\ pair[c].tail # pair[c].head
          /\ Len(jtx[c]) \in 2 .. 5
          /\ \E n \in 2 .. 5 :
                /\ n = Len(jtx[c])
                /\ pair[c].tail = JBase(c)
                      + (((pair[c].head - JBase(c)) + n * LJEntrySize)
                         % JPageSize)
                /\ \A k \in 1 .. (n - 1) :
                      JBase(c) + (((pair[c].head - JBase(c)) + k * LJEntrySize)
                                  % JPageSize) # pair[c].head

\* A rename transaction of five entries is open and its range has wrapped:
\* its tail lies before its head in the page.
C36_Witness ==
    \E c \in Cpus :
       /\ mode = "run" /\ jopen[c] /\ jpc[c] = "idle"
       /\ Len(jtx[c]) = 5
       /\ pair[c].tail < pair[c].head

\* C37: when a page fault fills a hole at iblock, the entry it publishes
\* covers [iblock, iblock + num_pages) with num_pages <= max_blocks, no page
\* of the extent was mapped before the call, and the extent ends at or
\* before every page that was mapped after iblock, so it stops short of the
\* next existing write entry.
C37_HoleFillStopsAtNextEntry ==
    (gb.pc = "done" /\ gb.create /\ ~ gb.hit /\ log_tail # gb.before.tail)
    => LET e == wlog[gb.before.tail]
       IN /\ log_tail = gb.before.tail + 1
          /\ e.pgoff = gb.iblock
          /\ e.num_pages = gb.ret
          /\ e.num_pages \in 1 .. gb.max_blocks
          /\ \A pg \in Pages :
                (gb.before.t[pg] # 0 /\ pg > gb.iblock)
                => /\ gb.iblock + e.num_pages <= pg
                   /\ gb.iblock + e.num_pages <= gb.before.lg[gb.before.t[pg]].pgoff
          /\ \A pg \in gb.iblock .. (gb.iblock + e.num_pages - 1) :
                /\ pg \in Pages
                /\ gb.before.t[pg] = 0
                /\ tree[pg] = gb.before.tail

\* A hole of one page in front of a mapped page is filled by a fault that
\* asked for more blocks, with blocks enough free for all it asked.
C37_Witness ==
    /\ gb.pc = "done" /\ gb.create /\ ~ gb.hit
    /\ log_tail = gb.before.tail + 1
    /\ gb.max_blocks >= 2
    /\ gb.ret = 1
    /\ gb.iblock + 1 \in Pages
    /\ gb.before.t[gb.iblock + 1] # 0
    /\ \E b \in Blocks : {b, b + 1} \subseteq gb.before.fr

\* C38: a read gives its caller no byte at or beyond the file size: what it
\* returns, and the number of bytes it stored in the buffer, is at most len
\* and at most size - pos; a read at a position at or past the size, or of
\* an empty file, stores no byte and, its buffer being writable, returns 0,
\* also when pos is past the size and the unsigned size - pos is huge.
C38_ReadWithinFileSize ==
    rd.pc = "done"
    => /\ rd.ret <= rd.len
       /\ Len(rd.data) <= rd.len
       /\ rd.pos < i_size
          => (rd.ret <= i_size - rd.pos /\ Len(rd.data) <= i_size - rd.pos)
       /\ rd.pos >= i_size
          => (Len(rd.data) = 0 /\ rd.ret <= 0 /\ (rd.ok => rd.ret = 0))

\* A read of a file that holds bytes, from a position past its size.
C38_Witness ==
    /\ rd.pc = "done" /\ rd.ok
    /\ i_size > 0
    /\ rd.pos > i_size
    /\ rd.len > 0
    /\ rd.ret = 0
    /\ tree[(i_size - 1) \div BlockSize] # 0

\* C39: a call of nova_cow_file_write ends and gives up i_mutex.  It holds
\* the lock from mutex_lock to the label out, that is, while it is at a step
\* of the loop or between the loop and out.  Every iteration that goes back
\* to the allocation has made num_blocks smaller and left it positive, the
\* allocator having given between 1 and num_blocks blocks; every other
\* iteration leaves the loop.  A call that is under way reaches out.
C39_WriteTerminatesAndUnlocks ==
    /\ [][(w.pc = "append" /\ w'.pc = "alloc")
            => (/\ w.allocated \in 1 .. w.num_blocks
                /\ w'.num_blocks = w.num_blocks - w.allocated
                /\ w'.num_blocks > 0
                /\ w'.num_blocks < w.num_blocks
                /\ w.copied = w.bytes /\ w.copied > 0)]_vars
    /\ [][(w.pc = "alloc" /\ w'.pc # "alloc")
            => (w'.pc = "idle"
                \/ (w'.pc = "fill" /\ w'.allocated \in 1 .. w.num_blocks))]_vars
    /\ (w.pc # "idle") ~> (w.pc = "idle")

\* A call is in its second iteration: the first one got fewer blocks than
\* it asked for.
C39_Witness ==
    /\ w.pc = "alloc"
    /\ w.total_blocks = NPages
    /\ w.num_blocks = 1
    /\ w.begin_tail # 0
    /\ w.written > 0

\* C40: nova_lite_journal_soft_init returns an error only when the
\* allocation of the locks failed or the journal of some CPU failed its
\* verification; when every journal is clean, or verified and replayed, it
\* returns 0.
C40_SoftInitFailsOnlyOnBadJournal ==
    mode = "failed"
    => \/ mnt.ret = ENOMEM
       \/ \E c \in Cpus : hist[c].checked /\ ~ hist[c].recovered

====
